---- MODULE Spec2Model ----
(***************************************************************************)
(* TorrentMax: the TorrentEngine session wrapper (core/engine.py).         *)
(*                                                                         *)
(* The owner thread drives the public API (start, stop, add_torrent,       *)
(* remove_torrent, process_alerts); the libtorrent session runs on its own *)
(* and talks to the engine through its alert queue only.  stop() is the    *)
(* one operation that blocks (wait_for_alert), so it is modelled step by   *)
(* step with a program counter; every other operation is one action.       *)
(*                                                                         *)
(* Time is time.monotonic() in milliseconds.  Statements take no time;     *)
(* time passes only while the owner thread is blocked in wait_for_alert.   *)
(***************************************************************************)
EXTENDS Integers, Sequences, FiniteSets, TLC

\* ------------------------------------------------------------ bounds
NumFps == 2      \* fingerprints (info hashes) the environment may offer
MaxOther == 1    \* unrelated alerts the backend posts per session
NumStopFps == 1  \* torrents held by the engine of the single-stop specification
MaxSetting == 1  \* setting values range over 0..MaxSetting
MaxBottlenecks == 2  \* bottlenecks in a list given to apply_dynamic_adjustments()

\* ------------------------------------------------- program constants
SHUTDOWN_RESUME_TIMEOUT == 8
SliceMs == 1000
MsPerSec == 1000

\* Time passes in half slices while the owner thread is blocked, so that a wait
\* may start off the slice grid and the last one be shorter than a slice.
TickMs == SliceMs \div 2

FPS == 1..NumFps
\* str(handle.info_hash()) of a handle whose torrent is gone: the all-zero hash
ZeroHash == 0

Min(a, b) == IF a < b THEN a ELSE b

VARIABLES
    \* TorrentEngine fields
    session,        \* self._session is not None
    stopped,        \* self._stopped
    handles,        \* self._handles: fingerprint -> "cur" (a handle of the live
                    \* session) or "old" (a handle of a session since replaced)
    \* owner thread inside stop() / _save_all_resume_data()
    pc,
    outstanding,
    deadline,
    waitUntil,      \* the instant the pending wait_for_alert(wait_ms) times out
    now,            \* time.monotonic(), ms
    \* the libtorrent session (backend)
    alive,          \* torrents the session holds; their handles are valid
    dirty,          \* torrents whose need_save_resume_data() is true
    pending,        \* torrents with a save_resume_data() request in flight
    alerts,         \* the alert queue
    nOther,         \* unrelated alerts posted so far by this session
    \* persistence
    written,        \* keys of the .fastresume files written by the stop() in progress
    nWrites,        \* how many such files were written
    \* history
    op,             \* the last API call of the owner thread
    trace,          \* the steps the stop() in progress has taken
    issued,         \* fingerprints save_resume_data() was requested for
    delivered,      \* alerts posted during the wait loop, before the deadline
    lost,           \* fingerprints whose 'saved' alert was drained without a file of its own
    timeoutLogged,  \* the "Resume data timeout" warning was logged
    ret,            \* what the last API call was given, did and returned
    \* the settings of the live session
    config,
    \* a second thread inside stop() / _save_all_resume_data()
    pcB,
    outB,           \* its outstanding
    deadlineB,      \* its deadline
    waitUntilB,     \* the instant its wait_for_alert(wait_ms) times out
    \* the AutoTuner
    current_profile,
    override_profile,
    tcall,          \* what the last call of the tuner was given, did and returned
    analysis,       \* the last analyze_bottlenecks(): its arguments and result
    \* the MainWindow
    shutting_down,  \* self._shutting_down
    quit_pc,        \* how far _quit_app() has come
    quit_runs,      \* how many times the body of _quit_app() was entered
    torrents_json,  \* the fingerprints listed in torrents.json
    callback        \* the last callback of the window: which, what the flag was, what it did

engineVars == <<session, stopped, handles>>
stopVars == <<pc, outstanding, deadline, waitUntil, now>>
backendVars == <<alive, dirty, pending, alerts, nOther>>
storeVars == <<written, nWrites>>
histVars == <<trace, issued, delivered, lost, timeoutLogged>>
apiVars == <<ret, config>>
callerBVars == <<pcB, outB, deadlineB, waitUntilB>>
tunerVars == <<current_profile, override_profile, tcall, analysis>>
uiVars == <<shutting_down, quit_pc, quit_runs, torrents_json, callback>>
vars == <<engineVars, stopVars, backendVars, storeVars, histVars, op,
          apiVars, callerBVars, tunerVars, uiVars>>

EmptyMap == [f \in {} |-> "cur"]

\* ------------------------------------------------------------ helpers

is_running == session /\ ~stopped

\* handle.is_valid() of the registry's handle for f
is_valid(f) == f \in DOMAIN handles /\ handles[f] = "cur" /\ f \in alive

Alert(t, f) == [type |-> t, fp |-> f]
OtherAlert == Alert("other", ZeroHash)

\* The settings followed (two of libtorrent's names) and their values.
SettingKeys == {"connections_limit", "active_downloads"}
SettingVals == 0..MaxSetting
\* The settings of a session constructed by start() (DEFAULT_SETTINGS names
\* neither key: both have the backend's default).
DefaultConfig == [k \in SettingKeys |-> 0]

\* What apply_settings() may be given: values for any of the keys.
SettingMaps == UNION {[K -> SettingVals] : K \in SUBSET SettingKeys}
NoSettings == [k \in {} |-> 0]

\* The record of an API call: the method, the kind and fingerprint of its
\* argument, what it returned ("raise" when it raised), what it logged, what
\* became of its backend call ("none" when it made none), the key of the
\* resume file it looked for and the settings it was given.
Call(n) ==
    [name |-> n, kind |-> "", fp |-> ZeroHash, value |-> "None", log |-> "",
     backend |-> "none", key |-> ZeroHash, settings |-> NoSettings]
NoRet == Call("none")
RetStop == Call("stop")

\* ------------------------------------------------------------ the tuner's data

\* PROFILES (tuner.py lines 11-51), for the settings followed.
PROFILES ==
    [wifi |-> [connections_limit |-> 100, active_downloads |-> 3],
     lan  |-> [connections_limit |-> 300, active_downloads |-> 5],
     vpn  |-> [connections_limit |-> 150, active_downloads |-> 3]]

\* What set_manual_profile() may be given: None, the empty string (how the
\* settings file spells "no manual profile"), a name of the table, another
\* string.
ManualNames == {"none", "", "wifi", "lan", "vpn", "other"}

\* Python's truth value of a profile name: None and "" are false.
Truthy(name) == name \notin {"none", ""}

\* What NetworkDetector.get_type() returns (detector.py lines 11-14).
ConnectionTypes == {"wifi", "lan", "unknown"}

\* Percentages are counted in tenths of a percent and severities in
\* thousandths, so that x / 100 of a percentage x is the same number.
Pct(n) == 10 * n
Sev(n) == 100 * n
Bottleneck(c, sev) == [category |-> c, severity |-> sev]

\* What the monitor may measure: disk and CPU load, and the statistics
\* get_session_stats() returns, {} on failure.
DiskLevels == {Pct(70), Pct(90), Pct(95), Pct(120)}
CpuLevels == {Pct(40), Pct(85), Pct(90)}
Rates == {0, 5 * 1024, 10 * 1024}
PeerCounts == {4, 5, 10, 12}
EmptyStats == [k \in {} |-> 0]
StatDicts ==
    {EmptyStats, [download_rate |-> 0, num_peers |-> 0]}
    \cup {[download_rate |-> r, num_peers |-> n] : r \in Rates, n \in PeerCounts}

\* What apply_dynamic_adjustments() may be given: lists of at most
\* MaxBottlenecks bottlenecks.
BottleneckKinds ==
    {Bottleneck("disk", Pct(95)), Bottleneck("disk", Sev(8)),
     Bottleneck("cpu", Pct(90)), Bottleneck("peers", Sev(7)),
     Bottleneck("network", Sev(6))}
BottleneckLists ==
    UNION {[1..n -> BottleneckKinds] : n \in 0..MaxBottlenecks}

\* The record of a call of the tuner: the method, its argument, the probe
\* values of the environment and whether they were read, what was returned,
\* and the settings handed to engine.apply_settings(), call by call.
TunerCall(n) ==
    [name |-> n, arg |-> "", vpn |-> FALSE, conn |-> "unknown",
     probed |-> FALSE, value |-> "None", applied |-> <<>>]
NoTunerCall == TunerCall("none")
\* The record of an analyze_bottlenecks(): its arguments and result, whether a
\* manual override was in force, and whether it repeated the arguments of the
\* call before it with the override set differently.
NoAnalysis ==
    [stats |-> EmptyStats, disk |-> 0, cpu |-> 0, value |-> <<>>,
     done |-> FALSE, manual |-> FALSE, repeated |-> FALSE]

\* The record of a callback of the window: which one, whether it found the
\* shutting-down flag set, whether it went past its guard.
UiCall(n) == [name |-> n, flag |-> FALSE, acted |-> FALSE]
NoCallback == UiCall("none")

\* MainWindow.__init__ (main_window.py lines 46-53): the flag is clear and
\* _quit_app() has not been called; torrents.json lists nothing.
UiInit ==
    /\ shutting_down = FALSE
    /\ quit_pc = "none"
    /\ quit_runs = 0
    /\ torrents_json = {}
    /\ callback = NoCallback

Init ==
    /\ session = FALSE
    /\ stopped = FALSE
    /\ handles = EmptyMap
    /\ pc = "idle"
    /\ outstanding = 0
    /\ deadline = 0
    /\ waitUntil = 0
    /\ now = 0
    /\ alive = {}
    /\ dirty = {}
    /\ pending = {}
    /\ alerts = <<>>
    /\ nOther = 0
    /\ written = {}
    /\ nWrites = 0
    /\ op = "none"
    /\ trace = <<>>
    /\ issued = {}
    /\ delivered = {}
    /\ lost = {}
    /\ timeoutLogged = FALSE
    /\ ret = NoRet
    /\ config = DefaultConfig
    /\ pcB = "idle"
    /\ outB = 0
    /\ deadlineB = 0
    /\ waitUntilB = 0
    /\ current_profile = "unknown"
    /\ override_profile = "none"
    /\ tcall = NoTunerCall
    /\ analysis = NoAnalysis
    /\ UiInit

\* ------------------------------------------------- the backend's own steps

\* A fresh lt.session: no torrents and an empty alert queue.  Also the
\* state of the backend once the engine has dropped its session.
BackendFresh ==
    /\ alive' = {}
    /\ dirty' = {}
    /\ pending' = {}
    /\ alerts' = <<>>
    /\ nOther' = 0

\* Once the checkpoint protocol has returned, stop() drops the session without
\* reading anything more of it: the backend is followed up to there.
BackendSeen == session /\ pc # "s_release"

\* A torrent now reports unsaved changes (need_save_resume_data() is last read
\* at line 220, so the flag is followed up to there).
BackendProgress ==
    /\ BackendSeen
    /\ pc \in {"idle", "s_pause", "s_dht", "s_ckpt"}
    /\ \E f \in alive \ dirty : dirty' = dirty \cup {f}
    /\ UNCHANGED <<engineVars, stopVars, alive, pending, alerts, nOther,
                   storeVars, histVars, op>>
    /\ UNCHANGED <<apiVars, callerBVars>>
    /\ UNCHANGED tunerVars
    /\ UNCHANGED uiVars

\* The backend drops a torrent on its own: every handle to it becomes invalid.
\* Inside the wait loop the engine reads the validity of a torrent only through
\* the handle of a 'saved' alert yet to be drained, so only those are followed.
BackendInvalidate ==
    /\ BackendSeen
    /\ \E f \in alive :
        /\ pc = "waiting" =>
               \E i \in DOMAIN alerts : alerts[i] = Alert("saved", f)
        /\ alive' = alive \ {f}
        /\ dirty' = dirty \ {f}
    /\ UNCHANGED <<engineVars, stopVars, pending, alerts, nOther,
                   storeVars, histVars, op>>
    /\ UNCHANGED <<apiVars, callerBVars>>
    /\ UNCHANGED tunerVars
    /\ UNCHANGED uiVars

\* The deadline of the checkpoint protocol is set and has not passed.
BeforeDeadline == pc = "waiting" /\ now < deadline

\* A save_resume_data() request completes: the backend posts
\* save_resume_data_alert or save_resume_data_failed_alert, in any order, also
\* after the protocol has given up on it.
BackendComplete ==
    /\ session
    /\ \E f \in pending, t \in {"saved", "failed"} :
        /\ pending' = pending \ {f}
        /\ alerts' = Append(alerts, Alert(t, f))
        /\ delivered' = IF BeforeDeadline THEN delivered \cup {Alert(t, f)}
                        ELSE delivered
    /\ UNCHANGED <<engineVars, stopVars, alive, dirty, nOther,
                   storeVars, trace, issued, lost, timeoutLogged, op>>
    /\ UNCHANGED <<apiVars, callerBVars>>
    /\ UNCHANGED tunerVars
    /\ UNCHANGED uiVars

\* The backend posts an alert of any other type.
BackendOther ==
    /\ BackendSeen
    /\ nOther < MaxOther
    /\ nOther' = nOther + 1
    /\ alerts' = Append(alerts, OtherAlert)
    /\ delivered' = IF BeforeDeadline THEN delivered \cup {OtherAlert}
                    ELSE delivered
    /\ UNCHANGED <<engineVars, stopVars, alive, dirty, pending,
                   storeVars, trace, issued, lost, timeoutLogged, op>>
    /\ UNCHANGED <<apiVars, callerBVars>>
    /\ UNCHANGED tunerVars
    /\ UNCHANGED uiVars

\* ------------------------------------------------------------ the API

\* What the record of a start() call keeps of the engine it was called on:
\* "restart" when the stop flag (line 42, set at line 85) was set.
StartKind == IF stopped THEN "restart" ELSE "first"

\* Faulty variant: the new session is installed but the stop flag is kept.
start_KeepsGuard ==
    /\ pc = "idle"
    /\ op' = "call"
    /\ \E ok \in BOOLEAN :
        IF ok
        THEN /\ session' = TRUE
             /\ stopped' = stopped
             /\ handles' = [f \in DOMAIN handles |-> "old"]
             /\ BackendFresh
             /\ trace' = <<>>
             /\ config' = DefaultConfig
             /\ ret' = [Call("start") EXCEPT !.backend = "ok",
                                              !.kind = StartKind]
             /\ UNCHANGED <<stopVars, storeVars, issued, delivered, lost,
                            timeoutLogged>>
        ELSE /\ ret' = [Call("start") EXCEPT !.value = "raise", !.backend = "raise",
                                              !.kind = StartKind]
             /\ UNCHANGED <<engineVars, stopVars, backendVars, storeVars,
                            histVars, config>>
    /\ UNCHANGED callerBVars
    /\ UNCHANGED tunerVars
    /\ UNCHANGED uiVars

\* start(): lines 56-79.  lt.session(settings) may raise; then nothing is
\* assigned.  Otherwise the new session replaces the old one (whose torrents
\* die with it) and the guard is reset; self._handles is left as it is.
start ==
    /\ pc = "idle"
    /\ op' = "call"
    /\ \E ok \in BOOLEAN :
        IF ok
        THEN /\ session' = TRUE
             /\ stopped' = FALSE
             /\ handles' = [f \in DOMAIN handles |-> "old"]
             /\ BackendFresh
             /\ trace' = <<>>
             /\ config' = DefaultConfig
             /\ ret' = [Call("start") EXCEPT !.backend = "ok",
                                              !.kind = StartKind]
             /\ UNCHANGED <<stopVars, storeVars, issued, delivered, lost,
                            timeoutLogged>>
        ELSE /\ ret' = [Call("start") EXCEPT !.value = "raise", !.backend = "raise",
                                              !.kind = StartKind]
             /\ UNCHANGED <<engineVars, stopVars, backendVars, storeVars,
                            histVars, config>>
    /\ UNCHANGED callerBVars
    /\ UNCHANGED tunerVars
    /\ UNCHANGED uiVars

\* What add_torrent() may be given: a magnet link or a .torrent file with
\* fingerprint fp, a magnet link that does not parse, a path that is no file,
\* a file that is no torrent.
Sources ==
    {[kind |-> k, fp |-> f] : k \in {"magnet", "file"}, f \in FPS}
    \cup {[kind |-> k, fp |-> ZeroHash] :
              k \in {"bad_magnet", "missing_file", "bad_file"}}

\* Lines 119-140: the message add_torrent() logs before it returns None early,
\* "" when it goes on to the backend.
AddFailure(src) ==
    IF ~is_running THEN "Engine not started"
    ELSE IF src.kind = "bad_magnet" THEN "Failed to parse magnet"
    ELSE IF src.kind = "missing_file" THEN "Torrent file not found"
    ELSE IF src.kind = "bad_file" THEN "Failed to parse torrent file"
    ELSE ""

\* Line 146: the fingerprint taken from the parameters before the torrent is
\* constructed.  parse_magnet_uri() fills params.info_hashes; for a .torrent
\* file only params.ti is assigned (line 137) and params.info_hashes keeps its
\* initial value, the all-zero hash.
ResumeKey(src) == IF src.kind = "magnet" THEN src.fp ELSE ZeroHash

\* Lines 114-164, the outcome of add_torrent(src); ok: session.add_torrent()
\* does not raise (line 160 is outside every try).
AddResult(src, ok) ==
    LET call == [Call("add_torrent") EXCEPT !.kind = src.kind, !.fp = src.fp]
    IN  IF AddFailure(src) # ""
        THEN [call EXCEPT !.log = AddFailure(src)]
        ELSE IF ok
        THEN [call EXCEPT !.value = "handle", !.log = "Added torrent",
                          !.backend = "ok", !.key = ResumeKey(src)]
        ELSE [call EXCEPT !.value = "raise", !.backend = "raise",
                          !.key = ResumeKey(src)]

\* Faulty variant: what the backend hands back is registered also when the
\* add failed and no torrent stands behind the handle.
add_torrent_RegistersFailed ==
    /\ pc = "idle"
    /\ op' = "call"
    /\ \E src \in Sources, ok \in BOOLEAN :
        /\ ret' = AddResult(src, ok)
        /\ IF AddFailure(src) = ""
           THEN /\ alive' = IF ok THEN alive \cup {src.fp} ELSE alive
                /\ handles' = [f \in DOMAIN handles \cup {src.fp} |->
                                  IF f = src.fp THEN "cur" ELSE handles[f]]
                /\ UNCHANGED <<session, stopped, stopVars, dirty, pending, alerts,
                               nOther, storeVars, histVars>>
           ELSE UNCHANGED <<engineVars, stopVars, backendVars, storeVars, histVars>>
    /\ UNCHANGED <<config, callerBVars>>
    /\ UNCHANGED tunerVars
    /\ UNCHANGED uiVars

\* add_torrent(): lines 114-164.  The handle the backend returns is registered
\* under str(handle.info_hash()).
add_torrent ==
    /\ pc = "idle"
    /\ op' = "call"
    /\ \E src \in Sources, ok \in BOOLEAN :
        /\ ret' = AddResult(src, ok)
        /\ IF AddResult(src, ok).value = "handle"
           THEN /\ alive' = alive \cup {src.fp}
                /\ handles' = [f \in DOMAIN handles \cup {src.fp} |->
                                  IF f = src.fp THEN "cur" ELSE handles[f]]
                /\ UNCHANGED <<session, stopped, stopVars, dirty, pending, alerts,
                               nOther, storeVars, histVars>>
           ELSE UNCHANGED <<engineVars, stopVars, backendVars, storeVars, histVars>>
    /\ UNCHANGED <<config, callerBVars>>
    /\ UNCHANGED tunerVars
    /\ UNCHANGED uiVars

\* Lines 169-176: what becomes of session.remove_torrent(handle): not called
\* without a popped handle or without a session, raising (and logged) for an
\* invalid handle.
RemoveBackend(f) ==
    IF f \in DOMAIN handles /\ session
    THEN IF is_valid(f) THEN "ok" ELSE "raise"
    ELSE "none"

\* Faulty variant: the entry is dropped only when the backend-side removal did
\* not fail.
remove_torrent_KeepsOnFailure ==
    /\ pc = "idle"
    /\ op' = "call"
    /\ \E f \in FPS :
        /\ handles' = IF RemoveBackend(f) = "raise" THEN handles
                      ELSE [g \in DOMAIN handles \ {f} |-> handles[g]]
        /\ IF RemoveBackend(f) = "ok"
           THEN /\ alive' = alive \ {f}
                /\ dirty' = dirty \ {f}
           ELSE UNCHANGED <<alive, dirty>>
        /\ ret' = [Call("remove_torrent") EXCEPT
                      !.fp = f,
                      !.backend = RemoveBackend(f),
                      !.log = IF RemoveBackend(f) = "none" THEN ""
                              ELSE "Removed torrent"]
    /\ UNCHANGED <<session, stopped, stopVars, pending, alerts, nOther,
                   storeVars, histVars, config, callerBVars>>
    /\ UNCHANGED tunerVars
    /\ UNCHANGED uiVars

\* remove_torrent(): lines 166-177.  The entry is popped first.
remove_torrent ==
    /\ pc = "idle"
    /\ op' = "call"
    /\ \E f \in FPS :
        /\ handles' = [g \in DOMAIN handles \ {f} |-> handles[g]]
        /\ IF RemoveBackend(f) = "ok"
           THEN /\ alive' = alive \ {f}
                /\ dirty' = dirty \ {f}
           ELSE UNCHANGED <<alive, dirty>>
        /\ ret' = [Call("remove_torrent") EXCEPT
                      !.fp = f,
                      !.backend = RemoveBackend(f),
                      !.log = IF RemoveBackend(f) = "none" THEN ""
                              ELSE "Removed torrent"]
    /\ UNCHANGED <<session, stopped, stopVars, pending, alerts, nOther,
                   storeVars, histVars, config, callerBVars>>
    /\ UNCHANGED tunerVars
    /\ UNCHANGED uiVars

\* Faulty variant: the guard looks at the session only, not at the stop flag.
process_alerts_SessionGuard ==
    /\ pc = "idle"
    /\ op' = "call"
    /\ \E ok \in BOOLEAN :
        /\ alerts' = IF session /\ ok THEN <<>> ELSE alerts
        /\ ret' = [Call("process_alerts") EXCEPT
                      !.value = IF session /\ ok /\ alerts # <<>>
                                THEN "alerts" ELSE "[]",
                      !.backend = IF ~session THEN "none"
                                  ELSE IF ok THEN "ok" ELSE "raise"]
    /\ UNCHANGED <<engineVars, stopVars, alive, dirty, pending, nOther,
                   storeVars, histVars, config, callerBVars>>
    /\ UNCHANGED tunerVars
    /\ UNCHANGED uiVars

\* process_alerts(): lines 203-210.  pop_alerts() empties the queue; when it
\* raises, the queue is left as it was and [] is returned.
process_alerts ==
    /\ pc = "idle"
    /\ op' = "call"
    /\ \E ok \in BOOLEAN :
        /\ alerts' = IF is_running /\ ok THEN <<>> ELSE alerts
        /\ ret' = [Call("process_alerts") EXCEPT
                      !.value = IF is_running /\ ok /\ alerts # <<>>
                                THEN "alerts" ELSE "[]",
                      !.backend = IF ~is_running THEN "none"
                                  ELSE IF ok THEN "ok" ELSE "raise"]
    /\ UNCHANGED <<engineVars, stopVars, alive, dirty, pending, nOther,
                   storeVars, histVars, config, callerBVars>>
    /\ UNCHANGED tunerVars
    /\ UNCHANGED uiVars

\* get_session_stats(): lines 188-201.  session.status() is read; when that
\* raises, {} is returned.
get_session_stats ==
    /\ pc = "idle"
    /\ op' = "call"
    /\ \E ok \in BOOLEAN :
        ret' = [Call("get_session_stats") EXCEPT
                   !.value = IF is_running /\ ok THEN "stats" ELSE "{}",
                   !.backend = IF ~is_running THEN "none"
                               ELSE IF ok THEN "ok" ELSE "raise"]
    /\ UNCHANGED <<engineVars, stopVars, backendVars, storeVars, histVars,
                   config, callerBVars>>
    /\ UNCHANGED tunerVars
    /\ UNCHANGED uiVars

\* Faulty variant: the overrides replace the configuration instead of being
\* merged into it; keys not given fall back to their defaults.
Merged_Replaces(pack, settings) ==
    [k \in SettingKeys |-> IF k \in DOMAIN settings THEN settings[k]
                           ELSE DefaultConfig[k]]

\* Line 184: pack.update(settings).
Merged(pack, settings) ==
    [k \in SettingKeys |-> IF k \in DOMAIN settings THEN settings[k] ELSE pack[k]]

\* apply_settings(): lines 179-186.
apply_settings ==
    /\ pc = "idle"
    /\ op' = "call"
    /\ \E settings \in SettingMaps :
        /\ config' = IF is_running THEN Merged(config, settings) ELSE config
        /\ ret' = [Call("apply_settings") EXCEPT
                      !.settings = settings,
                      !.backend = IF is_running THEN "ok" ELSE "none"]
    /\ UNCHANGED <<engineVars, stopVars, backendVars, storeVars, histVars,
                   callerBVars>>
    /\ UNCHANGED tunerVars
    /\ UNCHANGED uiVars

\* ------------------------------------------------------------ the tuner

\* engine.apply_settings(settings) called once for every element of pushes:
\* the live configuration afterwards.
RECURSIVE Pushed(_, _)
Pushed(cfg, pushes) ==
    IF pushes = <<>> THEN cfg
    ELSE Pushed(IF is_running THEN Merged(cfg, Head(pushes)) ELSE cfg,
                Tail(pushes))

\* The record of the engine's last API call after those calls.
LastApply(pushes) ==
    IF pushes = <<>> THEN ret
    ELSE [Call("apply_settings") EXCEPT
             !.settings = pushes[Len(pushes)],
             !.backend = IF is_running THEN "ok" ELSE "none"]

\* What a method of the tuner leaves alone.
TunerFrame ==
    UNCHANGED <<engineVars, stopVars, backendVars, storeVars, histVars,
                callerBVars, uiVars>>

\* Faulty variant: the bundle is pushed but the current profile is not updated.
apply_profile_KeepsCurrent(profile_name) ==
    IF profile_name \in DOMAIN PROFILES
    THEN [applied |-> <<PROFILES[profile_name]>>, current |-> current_profile]
    ELSE [applied |-> <<>>, current |-> current_profile]

\* _apply_profile(): tuner.py lines 163-171.  The settings it hands to
\* engine.apply_settings() and the current profile afterwards; an unknown
\* name is logged and nothing else happens.
apply_profile(profile_name) ==
    IF profile_name \in DOMAIN PROFILES
    THEN [applied |-> <<PROFILES[profile_name]>>, current |-> profile_name]
    ELSE [applied |-> <<>>, current |-> current_profile]

\* set_manual_profile(): tuner.py lines 75-79.
set_manual_profile ==
    /\ pc = "idle"
    /\ \E profile_name \in ManualNames :
        LET done == IF Truthy(profile_name) THEN apply_profile(profile_name)
                    ELSE [applied |-> <<>>, current |-> current_profile]
        IN  /\ override_profile' = profile_name
            /\ current_profile' = done.current
            /\ config' = Pushed(config, done.applied)
            /\ ret' = LastApply(done.applied)
            /\ op' = IF done.applied = <<>> THEN op ELSE "call"
            /\ tcall' = [TunerCall("set_manual_profile") EXCEPT
                            !.arg = profile_name, !.applied = done.applied]
    /\ TunerFrame
    /\ UNCHANGED analysis

\* Faulty variant: only an override that names a profile of the table counts.
OverrideActive_TableOnly == override_profile \in DOMAIN PROFILES

\* tuner.py line 83: `if self._override_profile`.
OverrideActive == Truthy(override_profile)

\* Faulty variant: a wifi connection is looked at before the VPN.
SelectProfile_WifiFirst(vpn_active, connection_type) ==
    IF connection_type = "wifi" THEN "wifi"
    ELSE IF vpn_active THEN "vpn"
    ELSE "lan"

\* tuner.py lines 89-94.
SelectProfile(vpn_active, connection_type) ==
    IF vpn_active THEN "vpn"
    ELSE IF connection_type = "wifi" THEN "wifi"
    ELSE "lan"

\* Faulty variant: the profile is applied again on every detection.
NeedsApply_Always(profile_name) == TRUE

\* tuner.py line 96.
NeedsApply(profile_name) == profile_name # current_profile

\* detect_and_apply(): tuner.py lines 81-99.  vpn_active and connection_type
\* are what the probes would report; they are read only past line 84.
detect_and_apply ==
    /\ pc = "idle"
    /\ \E vpn_active \in BOOLEAN, connection_type \in ConnectionTypes :
        LET call == [TunerCall("detect_and_apply") EXCEPT
                        !.vpn = vpn_active, !.conn = connection_type]
            profile_name == SelectProfile(vpn_active, connection_type)
            done == IF NeedsApply(profile_name) THEN apply_profile(profile_name)
                    ELSE [applied |-> <<>>, current |-> current_profile]
        IN  IF OverrideActive
            THEN /\ tcall' = [call EXCEPT !.value = override_profile]
                 /\ UNCHANGED <<current_profile, config, ret, op>>
            ELSE /\ tcall' = [call EXCEPT !.probed = TRUE,
                                          !.value = profile_name,
                                          !.applied = done.applied]
                 /\ current_profile' = done.current
                 /\ config' = Pushed(config, done.applied)
                 /\ ret' = LastApply(done.applied)
                 /\ op' = IF done.applied = <<>> THEN op ELSE "call"
    /\ TunerFrame
    /\ UNCHANGED <<override_profile, analysis>>

\* session_stats.get(key, 0): tuner.py lines 132-133.
StatOf(session_stats, key) ==
    IF key \in DOMAIN session_stats THEN session_stats[key] ELSE 0

\* Faulty variant: the disk rule fires from 90 percent on.
Bottlenecks_DiskInclusive(session_stats, disk_usage_pct, cpu_pct) ==
    LET dl_rate == StatOf(session_stats, "download_rate")
        num_peers == StatOf(session_stats, "num_peers")
    IN  (IF disk_usage_pct >= Pct(90)
         THEN <<Bottleneck("disk", Min(Sev(10), disk_usage_pct))>>
         ELSE IF disk_usage_pct > Pct(70)
         THEN <<Bottleneck("disk", Sev(5))>>
         ELSE <<>>)
        \o (IF cpu_pct > Pct(85)
            THEN <<Bottleneck("cpu", Min(Sev(10), cpu_pct))>>
            ELSE <<>>)
        \o (IF dl_rate > 0 /\ num_peers < 5
            THEN <<Bottleneck("peers", Sev(7))>>
            ELSE <<>>)
        \o (IF num_peers > 10 /\ dl_rate < 10 * 1024
            THEN <<Bottleneck("network", Sev(6))>>
            ELSE <<>>)

\* Faulty variant: under a manual override the network rule is left out.
Bottlenecks_OverrideDependent(session_stats, disk_usage_pct, cpu_pct) ==
    LET dl_rate == StatOf(session_stats, "download_rate")
        num_peers == StatOf(session_stats, "num_peers")
    IN  (IF disk_usage_pct > Pct(90)
         THEN <<Bottleneck("disk", Min(Sev(10), disk_usage_pct))>>
         ELSE IF disk_usage_pct > Pct(70)
         THEN <<Bottleneck("disk", Sev(5))>>
         ELSE <<>>)
        \o (IF cpu_pct > Pct(85)
            THEN <<Bottleneck("cpu", Min(Sev(10), cpu_pct))>>
            ELSE <<>>)
        \o (IF dl_rate > 0 /\ num_peers < 5
            THEN <<Bottleneck("peers", Sev(7))>>
            ELSE <<>>)
        \o (IF num_peers > 10 /\ dl_rate < 10 * 1024 /\ ~Truthy(override_profile)
            THEN <<Bottleneck("network", Sev(6))>>
            ELSE <<>>)

\* Faulty variant: the two disk rules are independent tests.
Bottlenecks_IndependentDisk(session_stats, disk_usage_pct, cpu_pct) ==
    LET dl_rate == StatOf(session_stats, "download_rate")
        num_peers == StatOf(session_stats, "num_peers")
    IN  (IF disk_usage_pct > Pct(90)
         THEN <<Bottleneck("disk", Min(Sev(10), disk_usage_pct))>>
         ELSE <<>>)
        \o (IF disk_usage_pct > Pct(70)
            THEN <<Bottleneck("disk", Sev(5))>>
            ELSE <<>>)
        \o (IF cpu_pct > Pct(85)
            THEN <<Bottleneck("cpu", Min(Sev(10), cpu_pct))>>
            ELSE <<>>)
        \o (IF dl_rate > 0 /\ num_peers < 5
            THEN <<Bottleneck("peers", Sev(7))>>
            ELSE <<>>)
        \o (IF num_peers > 10 /\ dl_rate < 10 * 1024
            THEN <<Bottleneck("network", Sev(6))>>
            ELSE <<>>)

\* The list analyze_bottlenecks() builds: tuner.py lines 104-151.
Bottlenecks(session_stats, disk_usage_pct, cpu_pct) ==
    LET dl_rate == StatOf(session_stats, "download_rate")
        num_peers == StatOf(session_stats, "num_peers")
    IN  (IF disk_usage_pct > Pct(90)
         THEN <<Bottleneck("disk", Min(Sev(10), disk_usage_pct))>>
         ELSE IF disk_usage_pct > Pct(70)
         THEN <<Bottleneck("disk", Sev(5))>>
         ELSE <<>>)
        \o (IF cpu_pct > Pct(85)
            THEN <<Bottleneck("cpu", Min(Sev(10), cpu_pct))>>
            ELSE <<>>)
        \o (IF dl_rate > 0 /\ num_peers < 5
            THEN <<Bottleneck("peers", Sev(7))>>
            ELSE <<>>)
        \o (IF num_peers > 10 /\ dl_rate < 10 * 1024
            THEN <<Bottleneck("network", Sev(6))>>
            ELSE <<>>)

\* analyze_bottlenecks(): tuner.py lines 101-151.
analyze_bottlenecks ==
    /\ pc = "idle"
    /\ \E session_stats \in StatDicts, disk_usage_pct \in DiskLevels,
          cpu_pct \in CpuLevels :
        analysis' = [stats |-> session_stats, disk |-> disk_usage_pct,
                     cpu |-> cpu_pct, done |-> TRUE,
                     value |-> Bottlenecks(session_stats, disk_usage_pct, cpu_pct),
                     manual |-> Truthy(override_profile),
                     repeated |-> /\ analysis.done
                                  /\ analysis.stats = session_stats
                                  /\ analysis.disk = disk_usage_pct
                                  /\ analysis.cpu = cpu_pct
                                  /\ analysis.manual # Truthy(override_profile)]
    /\ TunerFrame
    /\ UNCHANGED <<current_profile, override_profile, tcall, op, apiVars>>

\* Faulty variant: every disk bottleneck counts, whatever its severity.
Qualifies_AnyDisk(bn) == bn.category = "disk"

\* tuner.py line 156.
Qualifies(bn) == bn.category = "disk" /\ bn.severity > Sev(8)

\* Faulty variant: the limit in force is halved.
Baseline_Live == config["connections_limit"]

\* tuner.py lines 158-159: the connections_limit of the current profile in
\* PROFILES, 100 when the profile is not in the table.
Baseline ==
    IF current_profile \in DOMAIN PROFILES
    THEN PROFILES[current_profile]["connections_limit"]
    ELSE 100

\* tuner.py line 159.
Reduced == IF Baseline \div 2 > 30 THEN Baseline \div 2 ELSE 30

\* Faulty variant: a list with no qualifying bottleneck pushes the baseline
\* back.
Adjustments_RestoreWhenClear(bottlenecks) ==
    IF SelectSeq(bottlenecks, Qualifies) = <<>>
    THEN <<[connections_limit |-> Baseline]>>
    ELSE [i \in 1..Len(SelectSeq(bottlenecks, Qualifies)) |->
             [connections_limit |-> Reduced]]

\* tuner.py lines 155-160: the settings handed to engine.apply_settings(),
\* one call for every bottleneck of the list that qualifies.
RECURSIVE Adjustments(_)
Adjustments(bottlenecks) ==
    IF bottlenecks = <<>> THEN <<>>
    ELSE (IF Qualifies(Head(bottlenecks))
          THEN <<[connections_limit |-> Reduced]>>
          ELSE <<>>) \o Adjustments(Tail(bottlenecks))

\* apply_dynamic_adjustments(): tuner.py lines 153-161.
apply_dynamic_adjustments ==
    /\ pc = "idle"
    /\ \E bottlenecks \in BottleneckLists :
        /\ config' = Pushed(config, Adjustments(bottlenecks))
        /\ ret' = LastApply(Adjustments(bottlenecks))
        /\ op' = IF Adjustments(bottlenecks) = <<>> THEN op ELSE "call"
        /\ tcall' = [TunerCall("apply_dynamic_adjustments") EXCEPT
                        !.arg = bottlenecks,
                        !.applied = Adjustments(bottlenecks)]
    /\ TunerFrame
    /\ UNCHANGED <<current_profile, override_profile, analysis>>

\* ------------------------------------------------------------ stop()
\* Faulty variant: the guard without the one-shot flag.
StopGuard_NoFlag == ~session

\* Line 83: if not self._session or self._stopped: return
StopGuard == ~session \/ stopped
\* Faulty variant: the guard is set and the checkpoint protocol entered at
\* once, before the session is paused and the routing state saved.
StopEnter_SkipPause ==
    /\ pc = "idle"
    /\ IF StopGuard
       THEN /\ op' = "stop_noop"
            /\ UNCHANGED <<engineVars, stopVars, backendVars, storeVars, histVars>>
       ELSE /\ op' = "stop"
            /\ stopped' = TRUE
            /\ pc' = "s_ckpt"
            /\ trace' = <<"guard">>
            /\ issued' = {}
            /\ delivered' = {}
            /\ lost' = {}
            /\ timeoutLogged' = FALSE
            /\ written' = {}
            /\ nWrites' = 0
            /\ UNCHANGED <<session, handles, outstanding, deadline, waitUntil, now,
                           backendVars>>
    /\ ret' = RetStop
    /\ UNCHANGED <<config, callerBVars>>
    /\ UNCHANGED tunerVars
    /\ UNCHANGED uiVars

\* Lines 81-85.  A guarded call returns at once; otherwise the guard is set.
StopEnter ==
    /\ pc = "idle"
    /\ IF StopGuard
       THEN /\ op' = "stop_noop"
            /\ UNCHANGED <<engineVars, stopVars, backendVars, storeVars, histVars>>
       ELSE /\ op' = "stop"
            /\ stopped' = TRUE
            /\ pc' = "s_pause"
            /\ trace' = <<"guard">>
            /\ issued' = {}
            /\ delivered' = {}
            /\ lost' = {}
            /\ timeoutLogged' = FALSE
            /\ written' = {}
            /\ nWrites' = 0
            /\ UNCHANGED <<session, handles, outstanding, deadline, waitUntil, now,
                           backendVars>>
    /\ ret' = RetStop
    /\ UNCHANGED <<config, callerBVars>>
    /\ UNCHANGED tunerVars
    /\ UNCHANGED uiVars

\* Lines 87-91: session.pause() is called; when it raises, that is logged and
\* nothing else differs.
StopPause ==
    /\ pc = "s_pause"
    /\ pc' = "s_dht"
    /\ trace' = Append(trace, "pause")
    /\ UNCHANGED <<engineVars, outstanding, deadline, waitUntil, now,
                   alive, dirty, pending, alerts, nOther,
                   storeVars, issued, delivered, lost, timeoutLogged, op>>
    /\ UNCHANGED <<apiVars, callerBVars>>
    /\ UNCHANGED tunerVars
    /\ UNCHANGED uiVars

\* Lines 93-100: save_state() and the write of dht_state; when either raises,
\* that is logged and nothing else differs.
StopSaveState ==
    /\ pc = "s_dht"
    /\ pc' = "s_ckpt"
    /\ trace' = Append(trace, "dht")
    /\ UNCHANGED <<engineVars, outstanding, deadline, waitUntil, now,
                   backendVars, written, nWrites,
                   issued, delivered, lost, timeoutLogged, op>>
    /\ UNCHANGED <<apiVars, callerBVars>>
    /\ UNCHANGED tunerVars
    /\ UNCHANGED uiVars

\* Faulty variant: a request for every valid handle, changed or not.
NeedsCheckpoint_AnyValid(f) == is_valid(f)

\* Line 220: handle.is_valid() and handle.need_save_resume_data()
NeedsCheckpoint(f) == is_valid(f) /\ f \in dirty

\* Line 230: deadline = time.monotonic() + SHUTDOWN_RESUME_TIMEOUT
Deadline(t) == t + SHUTDOWN_RESUME_TIMEOUT * MsPerSec
\* Faulty variant: a full slice whatever time remains.
WaitMs_FullSlice(remaining) == SliceMs

\* Line 239: wait_ms = min(1000, int(remaining * 1000)); the clock counts
\* milliseconds, so int() of the remaining milliseconds is the number itself.
WaitMs(remaining) == Min(SliceMs, remaining)

\* Line 234: if remaining <= 0
TimedOut(remaining) == remaining <= 0
\* Faulty variant: the loop is left at the deadline without the warning.
LoopTop_Silent(out, t, dl) ==
    IF out > 0
    THEN IF TimedOut(dl - t)
         THEN /\ pc' = "s_release"
              /\ UNCHANGED <<waitUntil, timeoutLogged>>
         ELSE /\ waitUntil' = t + WaitMs(dl - t)
              /\ pc' = "waiting"
              /\ UNCHANGED timeoutLogged
    ELSE /\ pc' = "s_release"
         /\ UNCHANGED <<waitUntil, timeoutLogged>>

\* Lines 232-240, run at time t with the counter at out and the deadline dl:
\* the loop test, the deadline test (with its warning) and the call of
\* wait_for_alert(wait_ms), where the owner thread blocks.
LoopTop(out, t, dl) ==
    IF out > 0
    THEN IF TimedOut(dl - t)
         THEN /\ timeoutLogged' = TRUE
              /\ pc' = "s_release"
              /\ UNCHANGED waitUntil
         ELSE /\ waitUntil' = t + WaitMs(dl - t)
              /\ pc' = "waiting"
              /\ UNCHANGED timeoutLogged
    ELSE /\ pc' = "s_release"
         /\ UNCHANGED <<waitUntil, timeoutLogged>>

\* Lines 212-230 of _save_all_resume_data().  os.makedirs() is outside every
\* try: when it raises, stop() raises with the guard set and the session kept.
\* Otherwise one request per handle that needs a checkpoint (a handle that is
\* invalid, or turns invalid under the loop, is skipped); with none issued the
\* protocol returns at once, else the deadline is set and the wait loop entered.
CkptIssue ==
    /\ pc = "s_ckpt"
    /\ \E mk \in BOOLEAN :
        IF ~mk
        THEN /\ pc' = "idle"
             /\ trace' = Append(trace, "raise")
             /\ UNCHANGED <<engineVars, outstanding, deadline, waitUntil, now,
                            backendVars, storeVars,
                            issued, delivered, lost, timeoutLogged, op>>
        ELSE LET req == {f \in DOMAIN handles : NeedsCheckpoint(f)} IN
             /\ issued' = req
             /\ pending' = pending \cup req
             /\ dirty' = dirty \ req
             /\ outstanding' = Cardinality(req)
             /\ trace' = Append(trace, "ckpt")
             /\ IF Cardinality(req) = 0
                THEN /\ pc' = "s_release"
                     /\ UNCHANGED <<deadline, waitUntil, timeoutLogged>>
                ELSE /\ deadline' = Deadline(now)
                     /\ LoopTop(Cardinality(req), now, Deadline(now))
             /\ UNCHANGED <<engineVars, now, alive, alerts,
                            nOther, storeVars, delivered, lost, op>>
    /\ UNCHANGED <<apiVars, callerBVars>>
    /\ UNCHANGED tunerVars
    /\ UNCHANGED uiVars

\* Time passes while the owner thread is blocked and no alert is queued.
Tick ==
    /\ pc = "waiting"
    /\ session
    /\ alerts = <<>>
    /\ now + TickMs < waitUntil
    /\ now' = now + TickMs
    /\ UNCHANGED <<engineVars, pc, outstanding, deadline, waitUntil, backendVars,
                   storeVars, histVars, op>>
    /\ UNCHANGED <<apiVars, callerBVars>>
    /\ UNCHANGED tunerVars
    /\ UNCHANGED uiVars

\* Lines 240-242: wait_for_alert() times out with nothing queued and returns
\* no alert; the loop continues at its top.
WaitTimeout ==
    /\ pc = "waiting"
    /\ session
    /\ alerts = <<>>
    /\ pcB = "b_waiting" => waitUntil <= waitUntilB
    /\ now' = waitUntil
    /\ LoopTop(outstanding, waitUntil, deadline)
    /\ UNCHANGED <<engineVars, outstanding, deadline, backendVars,
                   storeVars, trace, issued, delivered, lost, op>>
    /\ UNCHANGED <<apiVars, callerBVars>>
    /\ UNCHANGED tunerVars
    /\ UNCHANGED uiVars

\* Faulty variant: a write that raises skips the decrement with it.
SavedHandled_FailureSkipsCount(a, st, failw) ==
    LET invalid == a.fp \notin alive
        raises == a.fp \in failw
        ih == IF invalid THEN ZeroHash ELSE a.fp
    IN  [out |-> IF raises THEN st.out ELSE st.out - 1,
         written |-> IF raises THEN st.written ELSE st.written \cup {ih},
         nWrites |-> IF raises THEN st.nWrites ELSE st.nWrites + 1,
         lost |-> IF raises \/ invalid THEN st.lost \cup {a.fp} ELSE st.lost]

\* The handling of a 'saved' alert (lines 245-253), shared by the variants.
SavedHandled(a, st, failw) ==
    LET invalid == a.fp \notin alive
        raises == a.fp \in failw
        ih == IF invalid THEN ZeroHash ELSE a.fp
    IN  [out |-> st.out - 1,
         written |-> IF raises THEN st.written ELSE st.written \cup {ih},
         nWrites |-> IF raises THEN st.nWrites ELSE st.nWrites + 1,
         lost |-> IF raises \/ invalid THEN st.lost \cup {a.fp} ELSE st.lost]

\* Faulty variant: a 'failed' alert is not counted.
DrainOne_FailedIgnored(a, st, failw) ==
    IF a.type = "saved" THEN SavedHandled(a, st, failw) ELSE st

\* Faulty variant: every alert is counted as a completion.
DrainOne_CountsOther(a, st, failw) ==
    IF a.type = "saved" THEN SavedHandled(a, st, failw)
    ELSE [st EXCEPT !.out = @ - 1]

\* Faulty variant: a 'failed' alert is written like a 'saved' one.
DrainOne_FailedWrites(a, st, failw) ==
    IF a.type \in {"saved", "failed"} THEN SavedHandled(a, st, failw) ELSE st

\* Lines 245-255, one alert.  st is [out, written, nWrites, lost]; failw are
\* the fingerprints for which the try body raises (info_hash(), open() or
\* write()).  info_hash() of an invalid handle that does not raise yields the
\* all-zero hash.
DrainOne(a, st, failw) ==
    IF a.type = "saved"
    THEN SavedHandled(a, st, failw)
    ELSE IF a.type = "failed"
    THEN [st EXCEPT !.out = @ - 1]
    ELSE st

\* Faulty variant: only the first alert of a popped batch is handled.
DrainAll_HeadOnly(batch, st, failw) ==
    IF batch = <<>> THEN st ELSE DrainOne(Head(batch), st, failw)

\* Lines 244-256: the for loop over the popped alerts.
RECURSIVE DrainAll(_, _, _)
DrainAll(batch, st, failw) ==
    IF batch = <<>> THEN st
    ELSE DrainAll(Tail(batch), DrainOne(Head(batch), st, failw), failw)

SavedIn(batch) == {batch[i].fp : i \in {j \in DOMAIN batch : batch[j].type = "saved"}}

\* Lines 240-256: wait_for_alert() returns an alert; pop_alerts() takes the
\* whole queue and every alert of it is handled.
WaitDrain ==
    /\ pc = "waiting"
    /\ session
    /\ alerts # <<>>
    /\ \E failw \in SUBSET SavedIn(alerts) :
        LET st == DrainAll(alerts,
                           [out |-> outstanding, written |-> written,
                            nWrites |-> nWrites, lost |-> lost],
                           failw)
        IN  /\ outstanding' = st.out
            /\ written' = st.written
            /\ nWrites' = st.nWrites
            /\ lost' = st.lost
            /\ LoopTop(st.out, now, deadline)
    /\ alerts' = <<>>
    /\ UNCHANGED <<engineVars, deadline, now, alive, dirty, pending,
                   nOther, trace, issued, delivered, op>>
    /\ UNCHANGED <<apiVars, callerBVars>>
    /\ UNCHANGED tunerVars
    /\ UNCHANGED uiVars

\* Lines 105-112: the session is dropped (and the backend with it), the
\* registry cleared.  The locals of _save_all_resume_data() are gone.
StopRelease ==
    /\ pc = "s_release"
    /\ pc' = "idle"
    /\ session' = FALSE
    /\ handles' = EmptyMap
    /\ BackendFresh
    /\ trace' = Append(trace, "release")
    /\ outstanding' = 0
    /\ deadline' = 0
    /\ waitUntil' = 0
    /\ now' = 0
    /\ issued' = {}
    /\ delivered' = {}
    /\ lost' = {}
    /\ timeoutLogged' = FALSE
    /\ written' = {}
    /\ nWrites' = 0
    /\ UNCHANGED <<stopped, op>>
    /\ config' = DefaultConfig
    /\ UNCHANGED <<ret, callerBVars>>
    /\ UNCHANGED tunerVars
    /\ UNCHANGED uiVars

\* ------------------------------------------- a second thread calling stop()
\* stop() takes no lock: line 83 reads the guard and line 85 sets it, and
\* another thread may run between the two.  The second caller runs the same
\* code with locals of its own (outB, deadlineB, waitUntilB) on the same
\* engine, session, alert queue and resume directory.

\* self._session is None under a thread blocked in the wait loop: the other
\* thread has released the session.  The AttributeError of line 240 or 244
\* is outside every try and ends the stop() of this thread; a wait that runs
\* out at the deadline ends the loop at line 234 before the session is read.
WaitLostSession ==
    /\ pc = "waiting"
    /\ ~session
    /\ \/ /\ pc' = "idle"
          /\ trace' = Append(trace, "raise")
          /\ UNCHANGED <<now, timeoutLogged>>
       \/ /\ waitUntil = deadline
          /\ now' = waitUntil
          /\ pc' = "s_release"
          /\ timeoutLogged' = TRUE
          /\ UNCHANGED trace
    /\ UNCHANGED <<engineVars, outstanding, deadline, waitUntil, backendVars,
                   storeVars, issued, delivered, lost, op, apiVars, callerBVars>>
    /\ UNCHANGED tunerVars
    /\ UNCHANGED uiVars

\* Line 83 in the second thread: the guard is read.
BCheck ==
    /\ pcB = "idle"
    /\ pcB' = IF StopGuard THEN "b_noop" ELSE "b_passed"
    /\ UNCHANGED <<engineVars, stopVars, backendVars, storeVars, histVars, op,
                   apiVars, outB, deadlineB, waitUntilB>>
    /\ UNCHANGED tunerVars
    /\ UNCHANGED uiVars

\* Line 85 in the second thread.
BSet ==
    /\ pcB = "b_passed"
    /\ pcB' = "b_pause"
    /\ stopped' = TRUE
    /\ trace' = Append(trace, "guard")
    /\ UNCHANGED <<session, handles, stopVars, backendVars, storeVars,
                   issued, delivered, lost, timeoutLogged, op, apiVars,
                   outB, deadlineB, waitUntilB>>
    /\ UNCHANGED tunerVars
    /\ UNCHANGED uiVars

\* Lines 87-91 in the second thread; without a session the AttributeError is
\* caught like any other.
BPause ==
    /\ pcB = "b_pause"
    /\ pcB' = "b_dht"
    /\ trace' = IF session THEN Append(trace, "pause") ELSE trace
    /\ UNCHANGED <<engineVars, stopVars, backendVars, storeVars,
                   issued, delivered, lost, timeoutLogged, op, apiVars,
                   outB, deadlineB, waitUntilB>>
    /\ UNCHANGED tunerVars
    /\ UNCHANGED uiVars

\* Lines 93-100 in the second thread.
BSaveState ==
    /\ pcB = "b_dht"
    /\ pcB' = "b_ckpt"
    /\ trace' = IF session THEN Append(trace, "dht") ELSE trace
    /\ UNCHANGED <<engineVars, stopVars, backendVars, storeVars,
                   issued, delivered, lost, timeoutLogged, op, apiVars,
                   outB, deadlineB, waitUntilB>>
    /\ UNCHANGED tunerVars
    /\ UNCHANGED uiVars

\* Lines 232-240 in the second thread.
BLoopTop(out, t, dl) ==
    IF out > 0
    THEN IF TimedOut(dl - t)
         THEN /\ timeoutLogged' = TRUE
              /\ pcB' = "b_release"
              /\ UNCHANGED waitUntilB
         ELSE /\ waitUntilB' = t + WaitMs(dl - t)
              /\ pcB' = "b_waiting"
              /\ UNCHANGED timeoutLogged
    ELSE /\ pcB' = "b_release"
         /\ UNCHANGED <<waitUntilB, timeoutLogged>>

\* Lines 212-230 in the second thread.
BCkptIssue ==
    /\ pcB = "b_ckpt"
    /\ \E mk \in BOOLEAN :
        IF ~mk
        THEN /\ pcB' = "b_raised"
             /\ trace' = Append(trace, "raise")
             /\ UNCHANGED <<outB, deadlineB, waitUntilB, backendVars,
                            timeoutLogged>>
        ELSE LET req == {f \in DOMAIN handles : NeedsCheckpoint(f)} IN
             /\ pending' = pending \cup req
             /\ dirty' = dirty \ req
             /\ outB' = Cardinality(req)
             /\ trace' = Append(trace, "ckpt")
             /\ IF Cardinality(req) = 0
                THEN /\ pcB' = "b_release"
                     /\ UNCHANGED <<deadlineB, waitUntilB, timeoutLogged>>
                ELSE /\ deadlineB' = Deadline(now)
                     /\ BLoopTop(Cardinality(req), now, Deadline(now))
             /\ UNCHANGED <<alive, alerts, nOther>>
    /\ UNCHANGED <<engineVars, stopVars, storeVars, issued, delivered, lost,
                   op, apiVars>>
    /\ UNCHANGED tunerVars
    /\ UNCHANGED uiVars

\* Lines 240-242 in the second thread.
BWaitTimeout ==
    /\ pcB = "b_waiting"
    /\ session
    /\ alerts = <<>>
    /\ pc = "waiting" => waitUntilB <= waitUntil
    /\ now' = waitUntilB
    /\ BLoopTop(outB, waitUntilB, deadlineB)
    /\ UNCHANGED <<engineVars, pc, outstanding, deadline, waitUntil,
                   backendVars, storeVars, trace, issued, delivered, lost, op,
                   apiVars, outB, deadlineB>>
    /\ UNCHANGED tunerVars
    /\ UNCHANGED uiVars

\* Lines 240-256 in the second thread: it pops whatever the queue holds,
\* also the completions of requests the other thread issued.
BWaitDrain ==
    /\ pcB = "b_waiting"
    /\ session
    /\ alerts # <<>>
    /\ \E failw \in SUBSET SavedIn(alerts) :
        LET st == DrainAll(alerts,
                           [out |-> outB, written |-> written,
                            nWrites |-> nWrites, lost |-> lost],
                           failw)
        IN  /\ outB' = st.out
            /\ written' = st.written
            /\ nWrites' = st.nWrites
            /\ lost' = st.lost
            /\ BLoopTop(st.out, now, deadlineB)
    /\ alerts' = <<>>
    /\ UNCHANGED <<engineVars, stopVars, alive, dirty, pending, nOther,
                   trace, issued, delivered, op, apiVars, deadlineB>>
    /\ UNCHANGED tunerVars
    /\ UNCHANGED uiVars

\* The second thread blocked in the wait loop finds self._session None.
BWaitLostSession ==
    /\ pcB = "b_waiting"
    /\ ~session
    /\ \/ /\ pcB' = "b_raised"
          /\ trace' = Append(trace, "raise")
          /\ UNCHANGED timeoutLogged
       \/ /\ waitUntilB = deadlineB
          /\ pcB' = "b_release"
          /\ timeoutLogged' = TRUE
          /\ UNCHANGED trace
    /\ UNCHANGED <<engineVars, stopVars, backendVars, storeVars,
                   issued, delivered, lost, op, apiVars,
                   outB, deadlineB, waitUntilB>>
    /\ UNCHANGED tunerVars
    /\ UNCHANGED uiVars

\* Lines 105-112 in the second thread.
BRelease ==
    /\ pcB = "b_release"
    /\ pcB' = "b_done"
    /\ session' = FALSE
    /\ handles' = EmptyMap
    /\ BackendFresh
    /\ trace' = Append(trace, "release")
    /\ config' = DefaultConfig
    /\ UNCHANGED <<stopped, stopVars, storeVars, issued, delivered, lost,
                   timeoutLogged, op, ret, outB, deadlineB, waitUntilB>>
    /\ UNCHANGED tunerVars
    /\ UNCHANGED uiVars

\* Time passes while a thread is blocked, none is running and no alert is
\* queued.
TickTwo ==
    /\ pc = "waiting" \/ pcB = "b_waiting"
    /\ pc \in {"idle", "waiting"}
    /\ pcB \in {"idle", "b_waiting", "b_noop", "b_raised", "b_done"}
    /\ session
    /\ alerts = <<>>
    /\ pc = "waiting" => now + TickMs < waitUntil
    /\ pcB = "b_waiting" => now + TickMs < waitUntilB
    /\ now' = now + TickMs
    /\ UNCHANGED <<engineVars, pc, outstanding, deadline, waitUntil, backendVars,
                   storeVars, histVars, op, apiVars, callerBVars>>
    /\ UNCHANGED tunerVars
    /\ UNCHANGED uiVars

\* ------------------------------------------------------------ the main window

\* How often _quit_app() is followed being called.
MaxQuitRuns == 2

\* What a callback leaves alone whatever it does.
UiFrame ==
    UNCHANGED <<engineVars, stopVars, dirty, pending, alive, nOther, histVars,
                callerBVars>>

\* The event loop can run a callback: no handler is in progress and the
\* application has not quit.  Timers stopped by _stop_timers() may still have
\* a timeout queued, which processEvents() (line 533) delivers.
LoopRuns == pc = "idle" /\ quit_pc \in {"none", "drain"}

\* What a refresh tick may measure (lines 378, 436-440): a quiet machine, a
\* disk loaded above 90 percent, and session stats that could not be read.
RefreshSamples ==
    {[stats |-> [download_rate |-> 10 * 1024, num_peers |-> 10],
      disk |-> Pct(70), cpu |-> Pct(40)],
     [stats |-> [download_rate |-> 10 * 1024, num_peers |-> 10],
      disk |-> Pct(95), cpu |-> Pct(40)],
     [stats |-> EmptyStats, disk |-> Pct(70), cpu |-> Pct(40)]}

\* _refresh_ui(): main_window.py lines 373-460.  Past the guard it reads the
\* session stats (engine.py lines 188-201: {} when status() raises), analyses
\* the bottlenecks and hands them to apply_dynamic_adjustments().
RefreshTick ==
    /\ LoopRuns
    /\ IF shutting_down \/ ~is_running
       THEN /\ callback' = [UiCall("refresh") EXCEPT !.flag = shutting_down]
            /\ UNCHANGED <<apiVars, op, tunerVars>>
       ELSE \E sample \in RefreshSamples :
            LET session_stats == sample.stats
                disk_usage == sample.disk
                cpu_pct == sample.cpu
                bottlenecks == Bottlenecks(session_stats, disk_usage, cpu_pct)
                pushes == Adjustments(bottlenecks)
                stats == [Call("get_session_stats") EXCEPT
                             !.value = IF session_stats = EmptyStats
                                       THEN "{}" ELSE "stats",
                             !.backend = IF session_stats = EmptyStats
                                         THEN "raise" ELSE "ok"]
            IN  /\ callback' = [UiCall("refresh") EXCEPT !.acted = TRUE]
                /\ analysis' = [stats |-> session_stats, disk |-> disk_usage,
                                cpu |-> cpu_pct, done |-> TRUE,
                                value |-> bottlenecks,
                                manual |-> Truthy(override_profile),
                                repeated |-> FALSE]
                /\ tcall' = [TunerCall("apply_dynamic_adjustments") EXCEPT
                                !.arg = bottlenecks, !.applied = pushes]
                /\ config' = Pushed(config, pushes)
                /\ ret' = IF pushes = <<>> THEN stats ELSE LastApply(pushes)
                /\ op' = "call"
                /\ UNCHANGED <<current_profile, override_profile>>
    /\ UiFrame
    /\ UNCHANGED <<alerts, storeVars, shutting_down, quit_pc, quit_runs,
                   torrents_json>>

\* _detect_network(): main_window.py lines 462-472.  auto_profile is the
\* setting read at line 471; the probes are those of detect_and_apply().
NetworkTick ==
    /\ LoopRuns
    /\ IF shutting_down
       THEN /\ callback' = [UiCall("network") EXCEPT !.flag = TRUE]
            /\ UNCHANGED <<apiVars, op, tunerVars>>
       ELSE \E auto_profile \in BOOLEAN, vpn_active \in BOOLEAN,
               connection_type \in ConnectionTypes :
            LET call == [TunerCall("detect_and_apply") EXCEPT
                            !.vpn = vpn_active, !.conn = connection_type]
                profile_name == SelectProfile(vpn_active, connection_type)
                done == IF NeedsApply(profile_name)
                        THEN apply_profile(profile_name)
                        ELSE [applied |-> <<>>, current |-> current_profile]
            IN  /\ callback' = [UiCall("network") EXCEPT !.acted = TRUE]
                /\ IF ~auto_profile
                   THEN UNCHANGED <<apiVars, op, tunerVars>>
                   ELSE IF OverrideActive
                   THEN /\ tcall' = [call EXCEPT !.value = override_profile]
                        /\ UNCHANGED <<current_profile, config, ret, op>>
                   ELSE /\ tcall' = [call EXCEPT !.probed = TRUE,
                                                 !.value = profile_name,
                                                 !.applied = done.applied]
                        /\ current_profile' = done.current
                        /\ config' = Pushed(config, done.applied)
                        /\ ret' = LastApply(done.applied)
                        /\ op' = IF done.applied = <<>> THEN op ELSE "call"
                /\ UNCHANGED <<override_profile, analysis>>
    /\ UiFrame
    /\ UNCHANGED <<alerts, storeVars, shutting_down, quit_pc, quit_runs,
                   torrents_json>>

\* _process_alerts(): main_window.py lines 474-490.  Past the guard the queue
\* is popped (engine.py lines 203-210) and the blob of every 'saved' alert is
\* written to its .fastresume file; failw are the alerts whose handling raises.
AlertTick ==
    /\ LoopRuns
    /\ IF shutting_down \/ ~is_running
       THEN /\ callback' = [UiCall("alert") EXCEPT !.flag = shutting_down]
            /\ UNCHANGED <<ret, op, alerts, storeVars>>
       ELSE \E ok \in BOOLEAN, failw \in SUBSET SavedIn(alerts) :
            LET batch == IF ok THEN alerts ELSE <<>>
                keys == {IF f \in alive THEN f ELSE ZeroHash :
                            f \in SavedIn(batch) \ failw}
            IN  /\ callback' = [UiCall("alert") EXCEPT !.acted = TRUE]
                /\ alerts' = IF ok THEN <<>> ELSE alerts
                /\ ret' = [Call("process_alerts") EXCEPT
                              !.value = IF batch # <<>> THEN "alerts" ELSE "[]",
                              !.backend = IF ok THEN "ok" ELSE "raise"]
                /\ op' = "call"
                /\ written' = written \cup keys
                /\ nWrites' = nWrites + Cardinality(SavedIn(batch) \ failw)
    /\ UiFrame
    /\ UNCHANGED <<config, tunerVars, shutting_down, quit_pc, quit_runs,
                   torrents_json>>

\* Faulty variant: the body is entered whatever the flag.
QuitEnter_NoGuard ==
    /\ pc = "idle"
    /\ quit_pc \in {"none", "drain", "quit"}
    /\ quit_runs < MaxQuitRuns
    /\ shutting_down' = TRUE
    /\ quit_pc' = "drain"
    /\ quit_runs' = quit_runs + 1
    /\ callback' = [UiCall("quit") EXCEPT !.flag = shutting_down,
                                           !.acted = TRUE]
    /\ UiFrame
    /\ UNCHANGED <<alerts, storeVars, op, apiVars, tunerVars, torrents_json>>

\* _quit_app(), lines 525-533: the guard, _stop_timers() (lines 272-277) and
\* the call of processEvents().  It is called from closeEvent() and may be
\* called again while events are processed or once the application quits.
QuitEnter ==
    /\ pc = "idle"
    /\ quit_pc \in {"none", "drain", "quit"}
    /\ quit_runs < MaxQuitRuns
    /\ IF shutting_down
       THEN /\ callback' = [UiCall("quit") EXCEPT !.flag = TRUE]
            /\ UNCHANGED <<shutting_down, quit_pc, quit_runs>>
       ELSE /\ shutting_down' = TRUE
            /\ quit_pc' = "drain"
            /\ quit_runs' = quit_runs + 1
            /\ callback' = [UiCall("quit") EXCEPT !.acted = TRUE]
    /\ UiFrame
    /\ UNCHANGED <<alerts, storeVars, op, apiVars, tunerVars, torrents_json>>

\* _quit_app(), lines 533-537: processEvents() has returned and
\* settings.save() is called; when it raises, lines 538-539 are skipped.
QuitSave ==
    /\ pc = "idle"
    /\ quit_pc = "drain"
    /\ \E ok \in BOOLEAN : quit_pc' = IF ok THEN "list" ELSE "hide"
    /\ UiFrame
    /\ UNCHANGED <<alerts, storeVars, op, apiVars, tunerVars, shutting_down,
                   quit_runs, torrents_json, callback>>

\* save_torrent_list(): engine.py lines 260-287.  One entry for every valid
\* handle of the registry; a failed write is logged and leaves the file.
ListedEntries(ok) ==
    IF ok THEN {f \in DOMAIN handles : is_valid(f)} ELSE torrents_json

\* _quit_app(), line 538.
QuitList ==
    /\ pc = "idle"
    /\ quit_pc = "list"
    /\ quit_pc' = "stop"
    /\ \E ok \in BOOLEAN :
        /\ torrents_json' = ListedEntries(ok)
        /\ ret' = [Call("save_torrent_list") EXCEPT
                      !.value = IF ok THEN "written" ELSE "None",
                      !.log = IF ok THEN "" ELSE "Failed to save torrent list"]
    /\ op' = "call"
    /\ UiFrame
    /\ UNCHANGED <<alerts, storeVars, config, tunerVars, shutting_down,
                   quit_runs, callback>>

\* _quit_app(), line 539: engine.stop() is entered.
QuitStop ==
    /\ quit_pc = "stop"
    /\ ret.name = "save_torrent_list"
    /\ StopEnter

\* _quit_app(), lines 540-545: engine.stop() has returned or raised, or
\* settings.save() raised; the tray icon is hidden and the application quits.
QuitHide ==
    /\ pc = "idle"
    /\ \/ quit_pc = "hide"
       \/ quit_pc = "stop" /\ ret = RetStop
    /\ quit_pc' = "quit"
    /\ UiFrame
    /\ UNCHANGED <<alerts, storeVars, op, apiVars, tunerVars, shutting_down,
                   quit_runs, torrents_json, callback>>

\* ------------------------------------------------------------ specification

Next ==
    \/ start
    \/ add_torrent
    \/ remove_torrent
    \/ process_alerts
    \/ get_session_stats
    \/ StopEnter
    \/ StopPause
    \/ StopSaveState
    \/ CkptIssue
    \/ Tick
    \/ WaitTimeout
    \/ WaitDrain
    \/ StopRelease
    \/ BackendProgress
    \/ BackendInvalidate
    \/ BackendComplete
    \/ BackendOther

Spec == Init /\ [][Next]_vars

\* The owner thread, once inside stop(), runs on: every wait is bounded, so
\* each of its steps is taken eventually.
OwnerStep ==
    \/ StopPause
    \/ StopSaveState
    \/ CkptIssue
    \/ WaitTimeout
    \/ WaitDrain
    \/ StopRelease

\* One stop() of a running engine that holds some torrents, any of them valid
\* and any valid one with unsaved changes, with the backend doing as it likes.
StopFps == 1..NumStopFps

InitStop ==
    /\ session = TRUE
    /\ stopped = FALSE
    /\ handles = [f \in StopFps |-> "cur"]
    /\ pc = "idle"
    /\ outstanding = 0
    /\ deadline = 0
    /\ waitUntil = 0
    /\ now = 0
    /\ alive \in SUBSET StopFps
    /\ dirty \in SUBSET alive
    /\ pending = {}
    /\ alerts = <<>>
    /\ nOther = 0
    /\ written = {}
    /\ nWrites = 0
    /\ op = "call"
    /\ trace = <<>>
    /\ issued = {}
    /\ delivered = {}
    /\ lost = {}
    /\ timeoutLogged = FALSE
    /\ ret = NoRet
    /\ config = DefaultConfig
    /\ pcB = "idle"
    /\ outB = 0
    /\ deadlineB = 0
    /\ waitUntilB = 0
    /\ current_profile = "unknown"
    /\ override_profile = "none"
    /\ tcall = NoTunerCall
    /\ analysis = NoAnalysis
    /\ UiInit

NextStop ==
    \/ StopEnter
    \/ StopPause
    \/ StopSaveState
    \/ CkptIssue
    \/ Tick
    \/ WaitTimeout
    \/ WaitDrain
    \/ StopRelease
    \/ BackendProgress
    \/ BackendInvalidate
    \/ BackendComplete
    \/ BackendOther

FairStop == InitStop /\ [][NextStop]_vars /\ WF_vars(OwnerStep)

\* The scenario of three (NumFps + 1) outstanding checkpoints: a running engine
\* holding that many valid torrents with unsaved changes, which is then stopped
\* and whose torrents stay valid to the end; the backend posts the completions
\* of the requests and nothing else.
ScenarioFps == 1..(NumFps + 1)

InitScenario ==
    /\ session = TRUE
    /\ stopped = FALSE
    /\ handles = [f \in ScenarioFps |-> "cur"]
    /\ pc = "idle"
    /\ outstanding = 0
    /\ deadline = 0
    /\ waitUntil = 0
    /\ now = 0
    /\ alive = ScenarioFps
    /\ dirty = ScenarioFps
    /\ pending = {}
    /\ alerts = <<>>
    /\ nOther = 0
    /\ written = {}
    /\ nWrites = 0
    /\ op = "call"
    /\ trace = <<>>
    /\ issued = {}
    /\ delivered = {}
    /\ lost = {}
    /\ timeoutLogged = FALSE
    /\ ret = NoRet
    /\ config = DefaultConfig
    /\ pcB = "idle"
    /\ outB = 0
    /\ deadlineB = 0
    /\ waitUntilB = 0
    /\ current_profile = "unknown"
    /\ override_profile = "none"
    /\ tcall = NoTunerCall
    /\ analysis = NoAnalysis
    /\ UiInit

NextScenario ==
    \/ StopEnter
    \/ StopPause
    \/ StopSaveState
    \/ CkptIssue
    \/ Tick
    \/ WaitTimeout
    \/ WaitDrain
    \/ StopRelease
    \/ BackendComplete

SpecScenario == InitScenario /\ [][NextScenario]_vars

\* Two threads call stop() on a running engine: the owner thread and a second
\* one, each at any moment.
NextTwoStop ==
    \/ StopEnter
    \/ StopPause
    \/ StopSaveState
    \/ CkptIssue
    \/ WaitTimeout
    \/ WaitDrain
    \/ WaitLostSession
    \/ StopRelease
    \/ BCheck
    \/ BSet
    \/ BPause
    \/ BSaveState
    \/ BCkptIssue
    \/ BWaitTimeout
    \/ BWaitDrain
    \/ BWaitLostSession
    \/ BRelease
    \/ TickTwo
    \/ BackendProgress
    \/ BackendInvalidate
    \/ BackendComplete
    \/ BackendOther

SpecTwoStop == InitStop /\ [][NextTwoStop]_vars

\* The engine driven through its lifecycle with settings applied in between:
\* the backend makes no progress, so stop() finds nothing to checkpoint.
NextSettings ==
    \/ start
    \/ add_torrent
    \/ remove_torrent
    \/ apply_settings
    \/ get_session_stats
    \/ StopEnter
    \/ StopPause
    \/ StopSaveState
    \/ CkptIssue
    \/ StopRelease

SpecSettings == Init /\ [][NextSettings]_vars

\* The tuner driving an engine that is started and stopped: no torrent is
\* registered, so stop() finds nothing to checkpoint.
NextTuner ==
    \/ start
    \/ set_manual_profile
    \/ detect_and_apply
    \/ StopEnter
    \/ StopPause
    \/ StopSaveState
    \/ CkptIssue
    \/ StopRelease

SpecTuner == Init /\ [][NextTuner]_vars

\* The monitor's tick handing bottleneck lists to the tuner, between changes
\* of the profile and starts of the engine.
NextAdjust ==
    \/ start
    \/ set_manual_profile
    \/ apply_dynamic_adjustments

SpecAdjust == Init /\ [][NextAdjust]_vars

\* The window from its construction to the end of _quit_app(): the timers'
\* callbacks, the calls of _quit_app() and the steps of the engine.stop() it
\* makes.
NextQuit ==
    \/ RefreshTick
    \/ NetworkTick
    \/ AlertTick
    \/ QuitEnter
    \/ QuitSave
    \/ QuitList
    \/ QuitStop
    \/ StopPause
    \/ StopSaveState
    \/ CkptIssue
    \/ StopRelease
    \/ QuitHide

\* main.py lines 55-98: the window is constructed on a started engine that
\* holds the restored torrents, all of them valid and none with unsaved
\* changes.
InitQuit ==
    /\ InitStop
    /\ alive = StopFps
    /\ dirty = {}

SpecQuit == InitQuit /\ [][NextQuit]_vars

\* The refresh tick analysing bottlenecks on an engine that may be started.
NextRules ==
    \/ start
    \/ analyze_bottlenecks

SpecRules == Init /\ [][NextRules]_vars

\* The window's timers: the network timer calls detect_and_apply() and the
\* refresh timer hands bottleneck lists to apply_dynamic_adjustments(),
\* between starts of the engine and changes of the manual profile.
NextMonitor ==
    \/ start
    \/ set_manual_profile
    \/ detect_and_apply
    \/ apply_dynamic_adjustments

SpecMonitor == Init /\ [][NextMonitor]_vars

\* The monitor's tick: bottlenecks are analysed, between changes of the
\* tuner's and of the engine's state.
NextAnalyze ==
    \/ start
    \/ set_manual_profile
    \/ analyze_bottlenecks

SpecAnalyze == Init /\ [][NextAnalyze]_vars

\* ------------------------------------------------------------ properties

Completions(evs) == {a \in evs : a.type \in {"saved", "failed"}}
SavedOf(evs) == {a.fp : a \in {b \in evs : b.type = "saved"}}
FailedOf(evs) == {a.fp : a \in {b \in evs : b.type = "failed"}}
NCompletions(q) == Cardinality({i \in DOMAIN q : q[i].type \in {"saved", "failed"}})
TimeoutMs == SHUTDOWN_RESUME_TIMEOUT * MsPerSec

\* The checkpoint protocol has returned after issuing requests.
Returned == pc = "s_release" /\ issued # {}

\* The step of the wait loop that pops and handles a batch of alerts.
DrainStep == pc = "waiting" /\ alerts # <<>> /\ alerts' = <<>>

\* C1 (safety part): the deadline is 8 s after the instant it was set (the
\* clock reads 0 there); every blocking wait lasts at most one slice and ends
\* no later than the deadline; the loop is left no later than the deadline.
C1_Bounded ==
    /\ pc = "waiting" =>
          /\ deadline = TimeoutMs
          /\ now < waitUntil
          /\ waitUntil - now <= SliceMs
          /\ waitUntil <= deadline
    /\ Returned => now <= deadline

\* C1: stop() always terminates: from inside the wait loop the owner thread
\* gets back to idle, and it leaves the loop no later than the deadline, with
\* no completion ever arriving and with unrelated alerts waking it.
C1_StopTerminates == []C1_Bounded /\ ((pc = "waiting") ~> (pc = "idle"))

\* C1 witness: the loop was left at the deadline, no completion having arrived,
\* an unrelated alert having woken it on the way.
C1_Witness ==
    /\ Returned
    /\ timeoutLogged
    /\ now = deadline
    /\ delivered = {OtherAlert}
    /\ outstanding = Cardinality(issued)

\* C2: a stop() called after a stop() has returned changes nothing: no pause,
\* no state save, no request, no wait, no file, no registry change.  While the
\* guard is set no step of a stop() begins, and the step that records the call
\* leaves every other variable as it was.
C2_SecondStopNoOp ==
    [][(pc = "idle" /\ stopped) =>
          /\ pc' = "idle"
          /\ (op' # op /\ op' \in {"stop", "stop_noop"}) =>
                 UNCHANGED <<engineVars, stopVars, backendVars, storeVars, histVars>>]_vars

\* C2 witness: a second stop() has returned after a first one ran to its end.
C2_Witness ==
    /\ op = "stop_noop"
    /\ pc = "idle"
    /\ stopped /\ ~session
    /\ trace = <<"guard", "pause", "dht", "ckpt", "release">>

\* C3: when all N completions (saved or failed) are delivered before the
\* deadline, the protocol returns before the deadline with outstanding = 0 and
\* no timeout logged.
C3_AllDelivered ==
    (Returned /\ Cardinality(Completions(delivered)) = Cardinality(issued))
        => /\ outstanding = 0
           /\ ~timeoutLogged
           /\ now < deadline

\* C3 witness: two requests, one saved and one failed, both in time and not
\* at once.
C3_Witness ==
    /\ Returned
    /\ Cardinality(issued) = 2
    /\ Cardinality(SavedOf(delivered)) = 1
    /\ Cardinality(FailedOf(delivered)) = 1
    /\ now > 0
    /\ outstanding = 0

\* C4 (state part): when only K < N completions are delivered before the
\* deadline, the protocol returns at the deadline with outstanding = N - K and
\* the timeout logged, and no file is written for an abandoned request.
C4_Partial ==
    (Returned /\ Cardinality(Completions(delivered)) < Cardinality(issued))
        => /\ outstanding = Cardinality(issued) - Cardinality(Completions(delivered))
           /\ timeoutLogged
           /\ now = deadline
           /\ written \subseteq SavedOf(delivered) \cup {ZeroHash}
           /\ nWrites <= Cardinality(SavedOf(delivered))

\* C4: ... and stop() still goes on to release the session, clear the registry
\* and leave the engine not running: after the timeout that step of stop() is
\* ready to run, and the step that leaves this point does just that.
C4_TimeoutThenRelease ==
    /\ []C4_Partial
    /\ []((Returned /\ timeoutLogged) => ENABLED StopRelease)
    /\ [][(Returned /\ timeoutLogged /\ pc' # pc)
             => (pc' = "idle" /\ ~session' /\ handles' = EmptyMap /\ ~is_running')]_vars

\* C4 witness: two requests, one completion in time, the other abandoned.
C4_Witness ==
    /\ Returned
    /\ Cardinality(issued) = 2
    /\ Cardinality(Completions(delivered)) = 1
    /\ timeoutLogged
    /\ outstanding = 1

\* C5: during the wait loop the counter never increases: a drained batch
\* lowers it by the number of 'saved' and 'failed' alerts in it (other alerts
\* count for nothing), and no other step of the loop changes it.
C5_CounterOnlyDecreases ==
    [][pc = "waiting" =>
          IF DrainStep
          THEN outstanding' = outstanding - NCompletions(alerts)
          ELSE outstanding' = outstanding]_vars

\* C5 witness: a batch holding a completion and an unrelated alert was drained
\* and one request is still outstanding.
C5_Witness ==
    /\ pc = "waiting"
    /\ alerts = <<>>
    /\ OtherAlert \in delivered
    /\ Cardinality(Completions(delivered)) = 1
    /\ outstanding = 1

\* C6 (step part): a drained 'saved' alert whose handle is valid and whose
\* write does not raise leaves a file under the fingerprint of its handle;
\* nothing else is written: a 'failed' alert writes nothing.
C6_DrainWrites ==
    DrainStep =>
        /\ \A f \in SavedIn(alerts) : f \notin lost' => f \in written'
        /\ written' \ written \subseteq SavedIn(alerts) \cup {ZeroHash}
        /\ nWrites' - nWrites <= Cardinality(SavedIn(alerts))
        /\ lost' = lost => nWrites' - nWrites = Cardinality(SavedIn(alerts))

\* C6 (scenario part): with every completion in time and no write lost, the
\* counter reaches 0, one file is written per 'saved' alert and no timeout is
\* logged.
C6_Scenario ==
    (Returned /\ Cardinality(Completions(delivered)) = Cardinality(issued) /\ lost = {})
        => /\ outstanding = 0
           /\ written = SavedOf(delivered)
           /\ nWrites = Cardinality(SavedOf(delivered))
           /\ ~timeoutLogged

\* C6: every drained 'saved' alert is written under the fingerprint of its
\* handle and a 'failed' alert writes nothing; hence with 3 outstanding
\* requests and 2 saved + 1 failed alerts in time, outstanding reaches 0,
\* exactly two files are written and no timeout is logged.
C6_SavedWrittenFailedNot == [][C6_DrainWrites]_vars /\ []C6_Scenario

\* C6 witness: 3 requests, 2 saved + 1 failed in time: 0 outstanding, 2 files.
C6_Witness ==
    /\ Returned
    /\ Cardinality(issued) = 3
    /\ Cardinality(SavedOf(delivered)) = 2
    /\ Cardinality(FailedOf(delivered)) = 1
    /\ outstanding = 0
    /\ nWrites = 2
    /\ Cardinality(written) = 2
    /\ ~timeoutLogged

\* C7: the result of the protocol is a function of the set of completions
\* delivered before the deadline (and of which writes were lost), whatever
\* their order and whatever unrelated alerts came between them: the counter
\* ends at N - K and the fingerprints written are those of the 'saved' ones.
C7_OrderIndependent ==
    Returned =>
        /\ outstanding = Cardinality(issued) - Cardinality(Completions(delivered))
        /\ written \ {ZeroHash} = SavedOf(delivered) \ lost

\* C7 witness: two completions and an unrelated alert were delivered (in any
\* of their orders) and the protocol has returned.
C7_Witness ==
    /\ Returned
    /\ Cardinality(Completions(delivered)) = 2
    /\ OtherAlert \in delivered
    /\ Cardinality(written) = 1
    /\ outstanding = 0

\* C8: at shutdown a request goes to exactly the registered handles that are
\* valid and report unsaved changes, the counter starts at their number, with
\* none the protocol returns at once (no deadline, no wait); after that no
\* request is issued again in this stop(), also not after a failure.
C8_RequestsIssuedOnce ==
    [][/\ (pc = "s_ckpt" /\ pc' \in {"waiting", "s_release"}) =>
             LET req == {f \in DOMAIN handles : f \in alive /\ handles[f] = "cur" /\ f \in dirty}
             IN  /\ pending' = pending \cup req
                 /\ outstanding' = Cardinality(req)
                 /\ req = {} => (pc' = "s_release" /\ UNCHANGED <<deadline, waitUntil, now>>)
                 /\ req # {} => (pc' = "waiting" /\ deadline' = now + TimeoutMs)
       /\ pc \in {"s_pause", "s_dht", "waiting", "s_release"}
             => pending' \subseteq pending]_vars

\* C8 witness: one request issued, a registered handle that is not valid
\* having been passed over.
C8_Witness ==
    /\ pc = "waiting"
    /\ Cardinality(issued) = 1
    /\ pending = issued
    /\ outstanding = 1
    /\ \E f \in DOMAIN handles : f \notin alive

\* C9, as claimed: a checkpoint is written only while its handle is still
\* valid: a drained batch writes at most one file per 'saved' alert whose
\* handle is valid when the batch is handled, and never one for a handle the
\* backend has invalidated since the request (whose info_hash() is the all-zero
\* hash).
C9_WritesOnlyWhileValid ==
    [][DrainStep =>
          /\ nWrites' - nWrites <= Cardinality(SavedIn(alerts) \cap alive)
          /\ ZeroHash \notin written']_vars

\* C10: a first stop() on a running engine sets the guard, pauses the session,
\* saves the routing state, runs the checkpoint protocol, then releases the
\* session and clears the registry, in this order: no request is in flight
\* before pause() was called, and session and registry are untouched until the
\* protocol has returned.
StopOrder == <<"guard", "pause", "dht", "ckpt", "release">>

C10_Order ==
    /\ \/ \E n \in 0..Len(StopOrder) : trace = SubSeq(StopOrder, 1, n)
       \/ trace = <<"guard", "pause", "dht", "raise">>
    /\ pc # "idle" => stopped /\ session /\ trace # <<>> /\ trace[1] = "guard"
    /\ pc \in {"s_pause", "s_dht", "s_ckpt"} => pending = {}
    /\ pending # {} => Len(trace) >= 4 /\ trace[2] = "pause" /\ trace[3] = "dht"
    /\ pc = "s_pause" <=> (pc # "idle" /\ Len(trace) = 1)
    /\ pc = "s_dht" <=> (pc # "idle" /\ Len(trace) = 2)
    /\ pc = "s_ckpt" <=> (pc # "idle" /\ Len(trace) = 3)
    /\ pc \in {"waiting", "s_release"} <=> (pc # "idle" /\ Len(trace) = 4)

C10_StopSequence ==
    /\ []C10_Order
    /\ [][(pc # "idle" /\ (session' # session \/ handles' # handles))
             => (pc = "s_release" /\ ~session' /\ handles' = EmptyMap)]_vars

\* C10 witness: a stop() that issued requests has run to its end.
C10_Witness ==
    /\ pc = "idle"
    /\ trace = StopOrder
    /\ ~session /\ stopped
    /\ handles = EmptyMap

\* C11, as claimed: whatever fails inside stop(), a stop() that passed the
\* guard does not raise and ends with the session released, the registry empty
\* and the engine not running.
C11_StopNeverRaises ==
    (pc = "idle" /\ op = "stop")
        => /\ trace[Len(trace)] # "raise"
           /\ ~session
           /\ handles = EmptyMap
           /\ ~is_running

\* How often a step occurs among the steps taken.
RECURSIVE Count(_, _)
Count(q, x) ==
    IF q = <<>> THEN 0
    ELSE (IF Head(q) = x THEN 1 ELSE 0) + Count(Tail(q), x)

\* C12, as claimed: of two threads calling stop() on a running engine at most
\* one passes the guard; the session is paused once and the checkpoint
\* protocol run once.
C12_OneCallerStops ==
    /\ ~(op = "stop" /\ pcB \notin {"idle", "b_noop"})
    /\ Count(trace, "pause") <= 1
    /\ Count(trace, "ckpt") <= 1

\* A successful add_torrent() has just returned.
Added == ret.name = "add_torrent" /\ ret.value = "handle"

\* C13: the registry is keyed by fingerprint, one entry each; an entry that
\* holds a handle of the live session got there through an add_torrent() of a
\* source with that very fingerprint, and its handle was valid at that moment;
\* adding a fingerprint that is registered adds no second entry.
C13_RegistryUniqueValid ==
    /\ [](DOMAIN handles \subseteq FPS)
    /\ [][\A f \in DOMAIN handles' :
             (handles'[f] = "cur" /\ (f \notin DOMAIN handles \/ handles[f] # "cur"))
                => /\ ret'.name = "add_torrent" /\ ret'.value = "handle"
                   /\ ret'.fp = f
                   /\ f \in alive']_vars
    /\ [][(ret' # ret /\ ret'.name = "add_torrent")
             => /\ ret'.value = "handle" =>
                      /\ DOMAIN handles' = DOMAIN handles \cup {ret'.fp}
                      /\ handles'[ret'.fp] = "cur"
                      /\ ret'.fp \in alive'
                /\ \A g \in DOMAIN handles \ {ret'.fp} :
                      g \in DOMAIN handles' /\ handles'[g] = handles[g]]_vars

\* C13 witness: after adds and a remove the registry holds two entries, the
\* last one added while the other was registered.
C13_Witness ==
    /\ Added
    /\ Cardinality(DOMAIN handles) = 2
    /\ \A f \in DOMAIN handles : handles[f] = "cur"
    /\ ret.fp \in alive

\* C14, as claimed: while the engine is not running (never started, guard set,
\* stopped) add_torrent() and remove_torrent() leave the registry unchanged.
C14_RegistryFrozenWhenNotRunning ==
    [][(~is_running /\ ret' # ret
            /\ ret'.name \in {"add_torrent", "remove_torrent"})
          => handles' = handles]_vars

\* An add_torrent() that did not register a handle has just returned or raised.
AddFailed == ret.name = "add_torrent" /\ ret.value # "handle"

\* C15, as claimed: whatever makes add_torrent() fail (engine not running,
\* malformed magnet link, missing file, unparsable file, the backend rejecting
\* the add), it returns an error result instead of raising, and registry and
\* running state stay as they were.
C15_AddNeverRaises ==
    /\ [](AddFailed => ret.value = "None")
    /\ [][(ret' # ret /\ ret'.name = "add_torrent" /\ ret'.value # "handle")
             => UNCHANGED <<session, stopped, handles>>]_vars

\* What the caller of add_torrent(src) holds afterwards: the returned value.
\* The log line goes to the logger, not to the caller.
CallerSees(src) == AddResult(src, TRUE).value

\* C16, as claimed: two add() calls that fail for different reasons (engine
\* not running, malformed magnet link, missing file, unparsable file) hand the
\* caller results it can tell apart.
C16_FailuresDistinguishable ==
    \A s1, s2 \in Sources :
        (AddFailure(s1) # "" /\ AddFailure(s2) # "" /\ AddFailure(s1) # AddFailure(s2))
           => CallerSees(s1) # CallerSees(s2)

\* C17: remove_torrent(f) on a running engine leaves f out of the registry,
\* also when the backend-side removal raised, and does not raise itself; every
\* other entry is as it was; for an f that was not registered nothing changes
\* and the backend is not called.
C17_RemoveAlwaysUnregisters ==
    [][(is_running /\ ret' # ret /\ ret'.name = "remove_torrent")
          => /\ ret'.fp \notin DOMAIN handles'
             /\ ret'.value # "raise"
             /\ DOMAIN handles' = DOMAIN handles \ {ret'.fp}
             /\ \A g \in DOMAIN handles' : handles'[g] = handles[g]
             /\ ret'.fp \notin DOMAIN handles
                   => /\ ret'.backend = "none"
                      /\ UNCHANGED <<engineVars, stopVars, backendVars, storeVars>>]_vars

\* A registered torrent whose handle had gone invalid was removed on a running
\* engine: the backend-side removal raised, the entry is gone, another stays.
C17_Witness ==
    /\ is_running
    /\ ret.name = "remove_torrent"
    /\ ret.backend = "raise"
    /\ ret.fp \notin DOMAIN handles
    /\ DOMAIN handles # {}

\* C18, as claimed: the key under which add_torrent() looks for a checkpoint
\* blob before constructing the torrent (line 146) is the fingerprint under
\* which it registers the handle (line 161), which is the key the blob of that
\* torrent is written under (line 247).
C18_ResumeKeyIsFingerprint ==
    Added => /\ ret.key = ret.fp
             /\ ret.fp \in DOMAIN handles

\* C19: apply_settings(map) on a running engine sets every key of the map to
\* the given value in the live configuration and leaves every other key as it
\* was; on an engine that is not running it changes nothing and does not call
\* the backend.
C19_SettingsMerged ==
    [][ret'.name = "apply_settings" =>
          IF is_running
          THEN /\ \A k \in DOMAIN ret'.settings : config'[k] = ret'.settings[k]
               /\ \A k \in SettingKeys \ DOMAIN ret'.settings : config'[k] = config[k]
               /\ ret'.backend = "ok"
          ELSE /\ ret'.backend = "none"
               /\ UNCHANGED <<config, engineVars, stopVars, backendVars, storeVars>>]_vars

\* Some but not all keys were applied on a running engine whose other key
\* held a non-default value, and that key still holds it.
C19_Witness ==
    /\ is_running
    /\ ret.name = "apply_settings"
    /\ ret.backend = "ok"
    /\ DOMAIN ret.settings # {}
    /\ \E k \in SettingKeys \ DOMAIN ret.settings : config[k] # DefaultConfig[k]

\* C20: while the engine is not running (no session, or the stop flag set),
\* process_alerts() returns [] and get_session_stats() returns {}, neither
\* raises, neither calls the backend, and the alert queue is left as it is.
C20_EmptyWhenNotRunning ==
    [][(~is_running /\ ret' # ret
           /\ ret'.name \in {"process_alerts", "get_session_stats"})
          => /\ ret'.value = IF ret'.name = "process_alerts" THEN "[]" ELSE "{}"
             /\ ret'.backend = "none"
             /\ UNCHANGED <<engineVars, backendVars, storeVars>>]_vars

\* process_alerts() was called with the stop flag set, a session still there
\* and alerts queued: it returned [] and the alerts are still queued.
C20_Witness ==
    /\ session /\ stopped
    /\ pc = "idle"
    /\ alerts # <<>>
    /\ ret.name = "process_alerts"
    /\ ret.value = "[]"
    /\ ret.backend = "none"

\* C21, as claimed: after a start() in which the construction of the backend
\* session raised, the engine is not running, whatever start() and stop()
\* calls came before.
C21_FailedStartNotRunning ==
    (ret.name = "start" /\ ret.value = "raise") => ~is_running

\* C22: while a manual override is set (set_manual_profile was given a name
\* and not None since), every detect_and_apply() returns that name, reads no
\* probe and calls engine.apply_settings() not once, whatever the probes
\* would report.
C22_OverrideWins ==
    [][(Truthy(override_profile) /\ tcall' # tcall
           /\ tcall'.name = "detect_and_apply")
          => /\ tcall'.value = override_profile
             /\ ~tcall'.probed
             /\ tcall'.applied = <<>>
             /\ UNCHANGED <<override_profile, current_profile, config, ret>>]_vars

\* detect_and_apply() returned the override "wifi" on a running engine while
\* the VPN probe would have reported an active VPN.
C22_Witness ==
    /\ is_running
    /\ override_profile = "wifi"
    /\ tcall.name = "detect_and_apply"
    /\ tcall.vpn
    /\ tcall.value = "wifi"
    /\ ~tcall.probed

\* A detect_and_apply() with no manual override in force is being taken.
AutoDetectStep ==
    /\ ~Truthy(override_profile)
    /\ tcall' # tcall
    /\ tcall'.name = "detect_and_apply"

\* C23: with no manual override, a detect_and_apply() whose profile equals
\* the current one calls engine.apply_settings() not once and leaves the
\* tuner (and the live configuration) as it was; when the profiles differ it
\* calls engine.apply_settings() exactly once.
C23_NoOpWhenSameProfile ==
    [][AutoDetectStep =>
          IF tcall'.value = current_profile
          THEN /\ tcall'.applied = <<>>
               /\ UNCHANGED <<current_profile, override_profile, config, ret>>
          ELSE Len(tcall'.applied) = 1]_vars

\* detect_and_apply() read the probes on a running engine, found the profile
\* already current, and applied nothing.
C23_Witness ==
    /\ is_running
    /\ ~Truthy(override_profile)
    /\ tcall.name = "detect_and_apply"
    /\ tcall.probed
    /\ tcall.value = current_profile
    /\ tcall.applied = <<>>

\* C24: with no manual override, detect_and_apply() selects "vpn" whenever the
\* VPN probe reports an active VPN, else "wifi" when the connection type is
\* wifi, else "lan" (for the types lan and unknown); that profile is returned
\* and is the current one afterwards.
C24_ProfilePriority ==
    [][AutoDetectStep =>
          /\ tcall'.probed
          /\ tcall'.vpn => tcall'.value = "vpn"
          /\ (~tcall'.vpn /\ tcall'.conn = "wifi") => tcall'.value = "wifi"
          /\ (~tcall'.vpn /\ tcall'.conn \in {"lan", "unknown"})
                => tcall'.value = "lan"
          /\ current_profile' = tcall'.value]_vars

\* With an active VPN over a wifi connection, "vpn" was selected and applied.
C24_Witness ==
    /\ tcall.name = "detect_and_apply"
    /\ tcall.probed
    /\ tcall.vpn
    /\ tcall.conn = "wifi"
    /\ tcall.value = "vpn"
    /\ current_profile = "vpn"
    /\ tcall.applied = <<PROFILES["vpn"]>>

\* C25: set_manual_profile(name) with a name of the profile table sets the
\* override, hands that profile's bundle to engine.apply_settings() and makes
\* it the current profile; set_manual_profile(None) clears the override,
\* calls engine.apply_settings() not once and leaves the current profile, so
\* that the next detect_and_apply() reads the probes again.
C25_ManualProfile ==
    /\ [][(tcall' # tcall /\ tcall'.name = "set_manual_profile")
             => /\ override_profile' = tcall'.arg
                /\ tcall'.arg \in DOMAIN PROFILES
                      => /\ tcall'.applied = <<PROFILES[tcall'.arg]>>
                         /\ current_profile' = tcall'.arg
                         /\ is_running
                               => \A k \in SettingKeys :
                                     config'[k] = PROFILES[tcall'.arg][k]
                /\ tcall'.arg = "none"
                      => /\ tcall'.applied = <<>>
                         /\ UNCHANGED <<current_profile, config, ret>>]_vars
    /\ [][(override_profile = "none" /\ tcall' # tcall
              /\ tcall'.name = "detect_and_apply") => tcall'.probed]_vars

\* The override "vpn" was set and then cleared: the current profile is still
\* "vpn" and the live configuration still holds its bundle.
C25_Witness ==
    /\ is_running
    /\ tcall.name = "set_manual_profile"
    /\ tcall.arg = "none"
    /\ override_profile = "none"
    /\ current_profile = "vpn"
    /\ config["connections_limit"] = PROFILES["vpn"]["connections_limit"]

\* The measurements an analyze_bottlenecks() was given.
DiskPct == analysis.disk
CpuPct == analysis.cpu
DownloadRate == StatOf(analysis.stats, "download_rate")
Peers == StatOf(analysis.stats, "num_peers")

\* The returned list holds the bottleneck (c, sev).
Reports(c, sev) ==
    \E i \in 1..Len(analysis.value) : analysis.value[i] = Bottleneck(c, sev)

\* The returned list holds no bottleneck of category c.
Silent(c) ==
    \A i \in 1..Len(analysis.value) : analysis.value[i].category # c

\* The place of a category in the fixed order disk, cpu, peers, network.
Rank(c) ==
    CASE c = "disk" -> 1 [] c = "cpu" -> 2 [] c = "peers" -> 3 [] c = "network" -> 4

\* C26: analyze_bottlenecks(stats, disk, cpu) returns exactly the bottlenecks
\* of the rule table, each category at most once, in the order disk, cpu,
\* peers, network: disk > 90 gives (disk, min(1, disk/100)), 70 < disk <= 90
\* gives (disk, 0.5), cpu > 85 gives (cpu, min(1, cpu/100)), rate > 0 with
\* fewer than 5 peers gives (peers, 0.7), more than 10 peers with a rate under
\* 10240 B/s gives (network, 0.6); disk=95, cpu=40, rate=0, peers=0 yields
\* exactly (disk, 0.95), and peers=12, rate=5120 yields exactly one network
\* bottleneck of severity 0.6.
C26_RuleTable ==
    analysis.done =>
       /\ \A i, j \in 1..Len(analysis.value) :
             i < j => Rank(analysis.value[i].category) < Rank(analysis.value[j].category)
       /\ IF DiskPct > 900 THEN Reports("disk", Min(1000, DiskPct))
          ELSE IF DiskPct > 700 THEN Reports("disk", 500)
          ELSE Silent("disk")
       /\ IF CpuPct > 850 THEN Reports("cpu", Min(1000, CpuPct)) ELSE Silent("cpu")
       /\ IF DownloadRate > 0 /\ Peers < 5 THEN Reports("peers", 700)
          ELSE Silent("peers")
       /\ IF Peers > 10 /\ DownloadRate < 10240 THEN Reports("network", 600)
          ELSE Silent("network")
       /\ (DiskPct = 950 /\ CpuPct = 400 /\ DownloadRate = 0 /\ Peers = 0)
             => analysis.value = <<Bottleneck("disk", 950)>>
       /\ (Peers = 12 /\ DownloadRate = 5120)
             => /\ Reports("network", 600)
                /\ Cardinality({i \in 1..Len(analysis.value) :
                                   analysis.value[i].category = "network"}) = 1
                /\ (DiskPct <= 700 /\ CpuPct <= 850)
                      => analysis.value = <<Bottleneck("network", 600)>>

\* The first scenario was analysed: disk at 95 percent, CPU at 40, no
\* download, no peers.
C26_Witness ==
    /\ analysis.done
    /\ analysis.stats = [download_rate |-> 0, num_peers |-> 0]
    /\ DiskPct = 950
    /\ CpuPct = 400
    /\ analysis.value = <<Bottleneck("disk", 950)>>

\* C27: analyze_bottlenecks() is pure and deterministic: a call with the
\* arguments of the call before it returns the same list, whatever happened
\* to tuner and engine in between, and a call changes nothing of the tuner,
\* the engine or the live configuration.
C27_AnalyzePure ==
    /\ [][(analysis.done /\ analysis'.done
              /\ analysis'.stats = analysis.stats
              /\ analysis'.disk = analysis.disk
              /\ analysis'.cpu = analysis.cpu)
             => analysis'.value = analysis.value]_vars
    /\ [][analysis' # analysis
             => UNCHANGED <<current_profile, override_profile, tcall, config,
                            ret, engineVars, backendVars, storeVars>>]_vars

\* The same measurements were analysed twice, with a manual override set in
\* between, and gave a non-empty list.
C27_Witness ==
    /\ analysis.repeated
    /\ analysis.manual
    /\ Reports("network", 600)

\* An apply_dynamic_adjustments() is being taken.
AdjustStep == tcall' # tcall /\ tcall'.name = "apply_dynamic_adjustments"

\* The places of a bottleneck list that hold a disk bottleneck of severity
\* above 0.8.
SevereDisk(bottlenecks) ==
    {i \in 1..Len(bottlenecks) :
        bottlenecks[i].category = "disk" /\ bottlenecks[i].severity > 800}

\* max(30, baseline // 2) for the connections_limit the profile table gives
\* the current profile, 100 when the table does not have the profile.
HalvedLimit ==
    LET baseline == CASE current_profile = "wifi" -> 100
                      [] current_profile = "lan" -> 300
                      [] current_profile = "vpn" -> 150
                      [] OTHER -> 100
    IN  IF baseline \div 2 >= 30 THEN baseline \div 2 ELSE 30

\* C28: apply_dynamic_adjustments() pushes connections_limit =
\* max(30, baseline // 2) once for every disk bottleneck of severity above
\* 0.8, the baseline being the current profile's connections_limit in the
\* profile table and not the live value: under the wifi profile 50 is pushed,
\* and 50 again (not 25) when the live limit is already 50.
C28_HalvesBaseline ==
    [][AdjustStep =>
          /\ tcall'.applied =
                [i \in 1..Cardinality(SevereDisk(tcall'.arg)) |->
                    [connections_limit |-> HalvedLimit]]
          /\ (is_running /\ SevereDisk(tcall'.arg) # {})
                => config'["connections_limit"] = HalvedLimit
          /\ (current_profile = "wifi" /\ SevereDisk(tcall'.arg) # {})
                => tcall'.applied[1]["connections_limit"] = 50]_vars

\* Under the wifi profile, on a running engine, a list with two severe disk
\* bottlenecks pushed 50 twice and the live limit is 50.
C28_Witness ==
    /\ is_running
    /\ current_profile = "wifi"
    /\ tcall.name = "apply_dynamic_adjustments"
    /\ Len(tcall.applied) = 2
    /\ tcall.applied[2]["connections_limit"] = 50
    /\ config["connections_limit"] = 50

\* C29: apply_dynamic_adjustments() calls engine.apply_settings() only for
\* disk bottlenecks of severity above 0.8: a list with none of them causes no
\* call; and whatever the list, only the live connections_limit may change,
\* never the current profile, the override or another live setting.
C29_OnlySevereDiskAdjusts ==
    [][AdjustStep =>
          /\ SevereDisk(tcall'.arg) = {}
                => tcall'.applied = <<>> /\ UNCHANGED <<config, ret>>
          /\ \A i \in 1..Len(tcall'.applied) :
                DOMAIN tcall'.applied[i] = {"connections_limit"}
          /\ \A k \in SettingKeys \ {"connections_limit"} : config'[k] = config[k]
          /\ UNCHANGED <<current_profile, override_profile, engineVars>>]_vars

\* On a running engine a list holding a disk bottleneck of severity exactly
\* 0.8 and a CPU bottleneck caused no call.
C29_Witness ==
    /\ is_running
    /\ tcall.name = "apply_dynamic_adjustments"
    /\ tcall.arg = <<Bottleneck("disk", 800), Bottleneck("cpu", 900)>>
    /\ tcall.applied = <<>>

\* The 'saved' alerts of the batch being drained whose handle is valid and
\* whose blob could not be written.
FailedWrites == {f \in SavedIn(alerts) : f \in alive /\ f \in lost'}

\* C30: a failure to write the blob of a 'saved' alert does not end the
\* shutdown: the wait loop goes on or is left normally, the alert still
\* counts as one completion, the other alerts of the batch are handled (each
\* other 'saved' alert is written once), and the failed write is not tried
\* again, neither in the batch nor later in this stop().
C30_WriteFailureNotFatal ==
    /\ [][(DrainStep /\ FailedWrites # {})
             => /\ pc' \in {"waiting", "s_release"}
                /\ trace' = trace
                /\ outstanding' = outstanding - NCompletions(alerts)
                /\ \A f \in SavedIn(alerts) \ FailedWrites : f \in alive => f \in written'
                /\ nWrites' - nWrites
                      <= Cardinality(SavedIn(alerts)) - Cardinality(FailedWrites)
                /\ nWrites' - nWrites
                      >= Cardinality({f \in SavedIn(alerts) \ FailedWrites : f \in alive})
                /\ FailedWrites \cap (written' \ written) = {}]_vars
    /\ [][pc # "idle" => (lost \cap alive) \cap (written' \ written) = {}]_vars

\* Two requests were answered by 'saved' alerts: one blob could not be
\* written, the other was; nothing is outstanding and no timeout was logged.
C30_Witness ==
    /\ Returned
    /\ Cardinality(issued) = 2
    /\ SavedOf(delivered) = issued
    /\ Cardinality(lost \cap alive) = 1
    /\ nWrites = 1
    /\ Cardinality(written \cap issued) = 1
    /\ outstanding = 0
    /\ ~timeoutLogged

\* C31, as claimed: throughout the checkpoint protocol the counter of every
\* caller stays between 0 and the number of requests issued; it does not go
\* below 0 when a popped batch holds more completions than that caller still
\* waits for.
C31_CounterInRange ==
    /\ pc \in {"waiting", "s_release"}
          => (0 <= outstanding /\ outstanding <= Cardinality(issued))
    /\ pcB \in {"b_waiting", "b_release"}
          => (0 <= outB /\ outB <= Cardinality(StopFps))

\* C32, as claimed: whenever the engine is not running and no stop() is in
\* progress, the registry is empty: before the first start(), after a stop()
\* that returned and after a stop() that ended by a failure.
C32_EmptyWhenNotRunning ==
    (pc = "idle" /\ ~is_running) => handles = EmptyMap

\* C33, as claimed: the engine owns at most one live session, and every handle
\* of the registry was created by the session the engine owns now, after any
\* sequence of start, add, remove and stop, a start() on a running engine
\* included.
C33_HandlesOfCurrentSession ==
    \A f \in DOMAIN handles : session /\ handles[f] = "cur"

\* C34: start() resets the stop flag: a start() that constructed its session
\* leaves the engine running, also after a stop(); on the running engine an
\* add_torrent() of a well-formed source the backend accepts returns a handle;
\* and a stop() then passes the guard and runs the sequence pause, state save,
\* checkpoint protocol, release again (in full unless the protocol raises).
C34_RestartAfterStop ==
    /\ [][(ret' # ret /\ ret'.name = "start" /\ ret'.backend = "ok")
             => (session' /\ ~stopped')]_vars
    /\ [][(is_running /\ ret' # ret /\ ret'.name = "add_torrent"
              /\ ret'.kind \in {"magnet", "file"} /\ ret'.backend = "ok")
             => (ret'.value = "handle" /\ ret'.fp \in DOMAIN handles')]_vars
    /\ [][(is_running /\ pc = "idle" /\ ret' = RetStop)
             => (op' = "stop" /\ pc' = "s_pause" /\ trace' = <<"guard">>)]_vars
    /\ [](pc = "idle" /\ op = "stop" /\ trace[Len(trace)] # "raise"
             => trace = StopOrder /\ ~session /\ handles = EmptyMap)

\* A start() called after a stop() (the stop flag was set) has constructed
\* its session: the engine is running again.
C34_Witness ==
    /\ ret.name = "start"
    /\ ret.kind = "restart"
    /\ ret.backend = "ok"
    /\ is_running
    /\ pc = "idle"

\* C35: whenever the engine is running and the tuner's current profile is
\* wifi, lan or vpn, the live configuration holds every setting of that
\* profile's bundle, except that connections_limit may hold a lower value.
C35_LiveConfigHoldsProfile ==
    (pc = "idle" /\ is_running /\ current_profile \in DOMAIN PROFILES)
        => /\ config["active_downloads"]
                 = PROFILES[current_profile]["active_downloads"]
           /\ config["connections_limit"]
                 <= PROFILES[current_profile]["connections_limit"]
           /\ config["connections_limit"] > 0

\* The live connections_limit is below the value the profile table gives the
\* current profile, as apply_dynamic_adjustments() leaves it.
C36_Lowered ==
    /\ is_running
    /\ current_profile \in DOMAIN PROFILES
    /\ config["connections_limit"] = HalvedLimit
    /\ HalvedLimit < PROFILES[current_profile]["connections_limit"]

\* C36: a lowered connections_limit stays lowered when the disk bottleneck
\* clears: a detect_and_apply() that leaves the current profile as it is and
\* an apply_dynamic_adjustments() given no disk bottleneck of severity above
\* 0.8 leave the live configuration as it was, and the limit gets the
\* current profile's table value again only in a detect_and_apply() that
\* changes the profile or a set_manual_profile() naming a table profile.
C36_StaysLowered ==
    /\ [][(C36_Lowered /\ tcall' # tcall /\ tcall'.name = "detect_and_apply"
              /\ current_profile' = current_profile)
             => (config' = config /\ C36_Lowered')]_vars
    /\ [][(C36_Lowered /\ AdjustStep /\ SevereDisk(tcall'.arg) = {})
             => (config' = config /\ C36_Lowered')]_vars
    /\ [][(/\ C36_Lowered
           /\ current_profile' \in DOMAIN PROFILES
           /\ config'["connections_limit"]
                 = PROFILES[current_profile']["connections_limit"])
             => /\ tcall' # tcall
                /\ \/ /\ tcall'.name = "detect_and_apply"
                      /\ current_profile' # current_profile
                   \/ /\ tcall'.name = "set_manual_profile"
                      /\ tcall'.arg \in DOMAIN PROFILES]_vars

\* The limit is still lowered after an apply_dynamic_adjustments() whose list
\* held no severe disk bottleneck.
C36_Witness ==
    /\ C36_Lowered
    /\ tcall.name = "apply_dynamic_adjustments"
    /\ SevereDisk(tcall.arg) = {}

\* C37: after every detect_and_apply() the name it returned is the tuner's
\* current profile, and the current profile is always one of unknown, wifi,
\* lan, vpn, whatever names set_manual_profile() was given.
C37_ReturnedIsCurrent ==
    /\ current_profile \in {"unknown", "wifi", "lan", "vpn"}
    /\ tcall.name = "detect_and_apply" => tcall.value = current_profile

\* C38: every list analyze_bottlenecks() returns holds at most one bottleneck
\* of each category and at most three bottlenecks: it never holds two disk
\* bottlenecks, and never a peers bottleneck together with a network one.
C38_OnePerCategory ==
    analysis.done =>
        /\ Len(analysis.value) <= 3
        /\ \A i, j \in 1..Len(analysis.value) :
               analysis.value[i].category = analysis.value[j].category => i = j
        /\ Silent("peers") \/ Silent("network")

\* A call has returned three bottlenecks, one of them for the disk.
C38_Witness ==
    /\ analysis.done
    /\ Len(analysis.value) = 3
    /\ ~Silent("disk")
    /\ analysis.disk > Pct(90)

\* A timer callback (refresh, network detection, alerts) has just run.
C39_TimerStep ==
    /\ callback' # callback
    /\ callback'.name \in {"refresh", "network", "alert"}

\* C39: the body of _quit_app() is entered at most once; engine.stop() is
\* called from it only right after save_torrent_list() has run, on the
\* registry that call listed (every valid handle, when the write succeeded);
\* and once the shutting-down flag is set a timer callback returns at its
\* guard: no tuner method and no engine method is called by it, and the only
\* engine calls made are the two of _quit_app() itself.
C39_QuitOnceListThenStop ==
    /\ [](quit_runs <= 1)
    /\ [][(quit_pc' # quit_pc /\ quit_pc' = "drain") => ~shutting_down]_vars
    /\ [][(ret' = RetStop /\ ret # RetStop)
             => /\ quit_pc = "stop"
                /\ ret.name = "save_torrent_list"
                /\ handles' = handles
                /\ ret.value = "written"
                      => torrents_json = {f \in DOMAIN handles : is_valid(f)}]_vars
    /\ [][(shutting_down /\ C39_TimerStep)
             => /\ ~callback'.acted
                /\ callback'.flag
                /\ UNCHANGED <<engineVars, backendVars, storeVars, apiVars, op,
                               tunerVars, torrents_json>>]_vars
    /\ [][shutting_down
             => /\ UNCHANGED tunerVars
                /\ ret' # ret => ret'.name \in {"save_torrent_list", "stop"}]_vars

\* _quit_app() has run to its end, once: a timer callback delivered while
\* events were processed found the flag set, the list written holds the
\* torrents of the registry, and the stop() after it has cleared the registry.
C39_Witness ==
    /\ quit_pc = "quit"
    /\ quit_runs = 1
    /\ callback.name \in {"refresh", "network", "alert"}
    /\ callback.flag
    /\ torrents_json = StopFps
    /\ handles = EmptyMap
    /\ ~session

====
